---- MODULE Spec2Model ----
(***************************************************************************)
(* Verification model of the ZK-PRET MCP server (Mina): the tool registry, *)
(* the tool-call dispatcher of ZKPRETMCPServer, the two WalletManager      *)
(* implementations and the tool handlers registered by index.ts.           *)
(*                                                                         *)
(* Tool names are modelled as the sequence of their '_'-separated          *)
(* segments (<<"contract","deploy">> is 'contract_deploy'), so that        *)
(* String.split('_') is the identity on the representation.  JavaScript    *)
(* object literals are modelled as functions whose property lookup falls   *)
(* back to Object.prototype, as the language does.                         *)
(***************************************************************************)
EXTENDS Integers, Sequences, FiniteSets, TLC

\* Number of getWalletInfo invocations that may be in flight together.
MaxCalls == 1

VARIABLES
  mockWallet,    \* a WalletManager of unnamed/part_004: [currentNetwork, currentConfig]
  mockOut,       \* outcome of the last method call made on mockWallet
  toolResp,      \* response of the last tool call handled by the index.ts handlers
  switchedTo,    \* network named by the last network_switch call that returned
  wallet,        \* the shared WalletManager of services/wallet/wallet-manager.ts
  minaInstance,  \* endpoint of the active Mina instance (Mina.setActiveInstance)
  walletOut,     \* outcome of the last switchNetwork call made on wallet
  walletCalls,   \* the getWalletInfo invocations, one record per call slot
  registry,      \* a ToolRegistry of unnamed/part_006: [tools, categories]
  registry7,     \* a ToolRegistry of unnamed/part_007: its tools map
  regOut,        \* outcome of the last call made on registry or registry7
  toolRegistry,  \* ZKPRETMCPServer.toolRegistry (a part_006 ToolRegistry)
  isInitialized, \* ZKPRETMCPServer.isInitialized
  mcpHandlers,   \* TRUE once registerMCPHandlers has installed the request handlers
  calls,         \* the handleToolCall invocations, one record per call slot
  lifecycle,     \* the process run by ZKPRETMCPServerBootstrap (unnamed/part_002)
  shutdowns,     \* the shutdown(signal) invocations in progress, oldest first
  transports,    \* the SSE adapters' session table (own keys of `transports`)
  conns,         \* the GET /sse connections, one record per connection slot
  sseResp,       \* the HTTP response to the last POST /messages
  launch,        \* one run of an entry point: argv, environment, effective options
  appConfig,     \* AppConfig.instance.config: the section objects of the live configuration
  configOut,     \* the last call on the AppConfig singleton and what it returned
  program        \* which of the repository's independent programs/classes is exercised

indexVars == <<mockWallet, mockOut, toolResp, switchedTo>>
wmVars    == <<wallet, minaInstance, walletOut, walletCalls>>
regVars   == <<registry, registry7, regOut>>
srvVars   == <<toolRegistry, isInitialized, mcpHandlers, calls>>
bootVars  == <<lifecycle, shutdowns>>
sseVars   == <<transports, conns, sseResp>>
appVars   == <<appConfig, configOut>>
cfgVars   == <<launch, appVars>>
adapterVars == <<bootVars, sseVars, cfgVars>>

vars == <<indexVars, wmVars, regVars, srvVars, adapterVars, program>>

(***************************************************************************)
(* JavaScript object literals                                              *)
(***************************************************************************)
\* Property names every object literal inherits from Object.prototype.
ObjectPrototypeKeys == {"constructor", "toString"}

UndefinedValue == [kind |-> "undefined", name |-> "undefined", endpoint |-> "undefined"]

\* The inherited member found under an Object.prototype key (a function,
\* whose own .name is the key and which has no endpoint property).
InheritedValue(key) == [kind |-> "inherited", name |-> key, endpoint |-> "undefined"]

\* obj[key]
PropertyOf(obj, key) ==
  IF key \in DOMAIN obj THEN obj[key]
  ELSE IF key \in ObjectPrototypeKeys THEN InheritedValue(key)
  ELSE UndefinedValue

\* key in obj
InOperator(key, obj) == key \in DOMAIN obj \/ key \in ObjectPrototypeKeys

\* Object.keys(obj)
ObjectKeys(obj) == DOMAIN obj

\* JavaScript truthiness of a looked-up property value.
Truthy(v) == v.kind # "undefined"

(***************************************************************************)
(* Network enumeration and the two network configuration tables            *)
(***************************************************************************)
NetworkTypes == {"local", "devnet", "testnet", "mainnet"}

\* Values a caller may name in a switch request: the enumeration, inherited
\* property names, and a name that is no property at all.
NetworkInputs == NetworkTypes \cup ObjectPrototypeKeys \cup {"berkeley"}

NoNetwork == "none"

\* NetworkConfig.configs (instance table used by the part_004 WalletManager)
NetworkConfig_configs ==
  [n \in NetworkTypes |->
     [kind |-> "config",
      name |-> CASE n = "local"   -> "Local Development"
                 [] n = "devnet"  -> "Mina Devnet"
                 [] n = "testnet" -> "Mina Testnet (Berkeley)"
                 [] n = "mainnet" -> "Mina Mainnet",
      endpoint |-> CASE n = "local"   -> "http://localhost:8080/graphql"
                     [] n = "devnet"  -> "https://api.minascan.io/node/devnet/v1/graphql"
                     [] n = "testnet" -> "https://api.minascan.io/node/berkeley/v1/graphql"
                     [] n = "mainnet" -> "https://api.minascan.io/node/mainnet/v1/graphql"]]

NetworkConfig_getConfig(network) == PropertyOf(NetworkConfig_configs, network)

NetworkConfig_isValidNetwork(network) == InOperator(network, NetworkConfig_configs)

NetworkConfig_getDefaultNetwork == "testnet"

\* MinaNetworkConfig.configs (static table used by wallet-manager.ts)
MinaNetworkConfig_configs ==
  [n \in NetworkTypes |->
     [kind |-> "config",
      name |-> CASE n = "local"   -> "Local Network"
                 [] n = "devnet"  -> "Devnet"
                 [] n = "testnet" -> "Testnet"
                 [] n = "mainnet" -> "Mainnet",
      endpoint |-> CASE n = "local"   -> "http://localhost:3085/graphql"
                     [] n = "devnet"  -> "https://api.minascan.io/node/devnet/v1/graphql"
                     [] n = "testnet" -> "https://api.minascan.io/node/testnet/v1/graphql"
                     [] n = "mainnet" -> "https://api.minascan.io/node/mainnet/v1/graphql"]]

\* static getConfig: throws 'Unknown network' when the lookup is falsy
MinaNetworkConfig_getConfig(network) ==
  LET config == PropertyOf(MinaNetworkConfig_configs, network)
  IN  [threw |-> ~Truthy(config), config |-> config]

MinaNetworkConfig_isValidNetwork(network) == network \in ObjectKeys(MinaNetworkConfig_configs)

(***************************************************************************)
(* WalletManager of unnamed/part_004 (mock wallet over NetworkConfig)      *)
(***************************************************************************)
MockWallet_new ==
  [currentNetwork |-> NetworkConfig_getDefaultNetwork,
   currentConfig  |-> NetworkConfig_getConfig(NetworkConfig_getDefaultNetwork)]

\* A switchNetwork that forgets to refresh the derived configuration.
MockWallet_switchNetwork_staleConfig(w, network) ==
  IF ~NetworkConfig_isValidNetwork(network)
  THEN [threw |-> TRUE, wm |-> w]
  ELSE [threw |-> FALSE,
        wm |-> [currentNetwork |-> network, currentConfig |-> w.currentConfig]]

\* switchNetwork(network): result and the instance afterwards
MockWallet_switchNetwork(w, network) ==
  IF ~NetworkConfig_isValidNetwork(network)
  THEN [threw |-> TRUE, wm |-> w]
  ELSE [threw |-> FALSE,
        wm |-> [currentNetwork |-> network,
                currentConfig  |-> NetworkConfig_getConfig(network)]]

\* getWalletInfo(address).network
MockWallet_getWalletInfo(w) == [network |-> w.currentNetwork]

\* switchNetwork called on the long-lived instance
MockSwitchNetwork(network) ==
  LET r == MockWallet_switchNetwork(mockWallet, network)
  IN  /\ mockWallet' = r.wm
      /\ mockOut' = [op |-> "switchNetwork", arg |-> network, threw |-> r.threw,
                     before |-> mockWallet.currentNetwork]
      /\ UNCHANGED <<toolResp, switchedTo, wmVars, regVars, srvVars, adapterVars, program>>

\* getCurrentNetwork()
MockWallet_getCurrentNetwork(w) == w.currentNetwork

\* getNetworkConfig()
MockWallet_getNetworkConfig(w) == w.currentConfig

(***************************************************************************)
(* Tool handlers registered by index.ts: each builds its own WalletManager *)
(***************************************************************************)
NoResp == [tool |-> "none", threw |-> FALSE, network |-> NoNetwork, configName |-> "none"]

\* network_switch handler
NetworkSwitchTool(network) ==
  LET walletManager == MockWallet_new
      r == MockWallet_switchNetwork(walletManager, network)
  IN  /\ toolResp' = IF r.threw
                     THEN [tool |-> "network_switch", threw |-> TRUE,
                           network |-> NoNetwork, configName |-> "none"]
                     ELSE [tool |-> "network_switch", threw |-> FALSE,
                           network |-> network,
                           configName |-> r.wm.currentConfig.name]
      /\ switchedTo' = IF r.threw THEN switchedTo ELSE network
      /\ UNCHANGED <<mockWallet, mockOut, wmVars, regVars, srvVars, adapterVars, program>>

\* network_get_current handler
NetworkGetCurrentTool ==
  LET walletManager == MockWallet_new
  IN  /\ toolResp' = [tool |-> "network_get_current", threw |-> FALSE,
                      network |-> walletManager.currentNetwork,
                      configName |-> walletManager.currentConfig.name]
      /\ UNCHANGED <<mockWallet, mockOut, switchedTo, wmVars, regVars, srvVars, 
                   adapterVars, program>>

\* wallet_get_info handler; network = "" stands for an absent argument
WalletGetInfoTool(network) ==
  LET walletManager == MockWallet_new
      r == IF network # "" THEN MockWallet_switchNetwork(walletManager, network)
           ELSE [threw |-> FALSE, wm |-> walletManager]
  IN  /\ toolResp' = IF r.threw
                     THEN [tool |-> "wallet_get_info", threw |-> TRUE,
                           network |-> NoNetwork, configName |-> "none"]
                     ELSE [tool |-> "wallet_get_info", threw |-> FALSE,
                           network |-> MockWallet_getWalletInfo(r.wm).network,
                           configName |-> r.wm.currentConfig.name]
      /\ UNCHANGED <<mockWallet, mockOut, switchedTo, wmVars, regVars, srvVars, 
                   adapterVars, program>>

(***************************************************************************)
(* WalletManager of services/wallet/wallet-manager.ts (one shared          *)
(* instance, handed to the server and its services at construction)        *)
(***************************************************************************)
Calls == 1..MaxCalls

WalletTypes == {"undefined", "private_key", "browser"}

\* keyNetwork records the network that was current when initialize()
\* finished loading the private key (NoNetwork while no key is held).
Wallet_new ==
  [privateKey |-> FALSE, currentNetwork |-> "local",
   browserWallet |-> FALSE, isInitialized |-> FALSE, keyNetwork |-> NoNetwork]

\* A getWalletInfo invocation: where it is suspended, and the value
\* this.currentNetwork had when it was invoked.
IdleCall == [pc |-> "idle", dispatched |-> NoNetwork]

NoWalletOut ==
  [op |-> "none", arg |-> NoNetwork, threw |-> FALSE,
   dispatched |-> NoNetwork, network |-> NoNetwork]

\* Mina.Network(endpoint) is o1js code: given a defined endpoint it builds
\* the instance; given undefined it may reject the input or accept it.
MinaNetworkOutcomes(endpoint) ==
  IF endpoint = "undefined" THEN {"throws", "returns"} ELSE {"returns"}

\* switchNetwork(network): the body has no await, it runs to completion
Wallet_switchNetwork(w, mina, network, minaOutcome) ==
  LET got == MinaNetworkConfig_getConfig(network)
  IN  IF got.threw \/ minaOutcome = "throws"
      THEN [threw |-> TRUE, wallet |-> w, mina |-> mina]
      ELSE [threw |-> FALSE,
            wallet |-> [w EXCEPT !.currentNetwork = network],
            mina |-> got.config.endpoint]

\* getCurrentNetwork()
Wallet_getCurrentNetwork(w) == w.currentNetwork

\* initialize(): optional private key and network from the environment
Wallet_initialize(w, mina, out, envKey, envNetwork) ==
  LET keyed == [w EXCEPT !.privateKey = envKey, !.browserWallet = TRUE]
      switched == envNetwork # "" /\ MinaNetworkConfig_isValidNetwork(envNetwork)
      r == IF switched
           THEN Wallet_switchNetwork(keyed, mina, envNetwork, "returns")
           ELSE [threw |-> FALSE, wallet |-> keyed, mina |-> mina]
  IN  [wallet |-> [r.wallet EXCEPT
                     !.isInitialized = TRUE,
                     !.keyNetwork = IF envKey THEN r.wallet.currentNetwork ELSE NoNetwork],
       mina |-> r.mina,
       out |-> IF switched
               THEN [NoWalletOut EXCEPT !.op = "switchNetwork",
                                        !.arg = envNetwork, !.threw = r.threw]
               ELSE out]

\* initialize() called on the shared instance
WalletInitialize(envKey, envNetwork) ==
  /\ ~wallet.isInitialized
  /\ LET r == Wallet_initialize(wallet, minaInstance, walletOut, envKey, envNetwork)
     IN  /\ wallet' = r.wallet
         /\ minaInstance' = r.mina
         /\ walletOut' = r.out
  /\ UNCHANGED <<walletCalls, indexVars, regVars, srvVars, adapterVars, program>>

\* switchNetwork on the shared instance, dispatched at any time
WalletSwitchNetwork(network) ==
  \E minaOutcome \in MinaNetworkOutcomes(PropertyOf(MinaNetworkConfig_configs, network).endpoint) :
    LET r == Wallet_switchNetwork(wallet, minaInstance, network, minaOutcome)
    IN  /\ wallet' = r.wallet
        /\ minaInstance' = r.mina
        /\ walletOut' = [NoWalletOut EXCEPT !.op = "switchNetwork", !.arg = network,
                                            !.threw = r.threw]
        /\ UNCHANGED <<walletCalls, indexVars, regVars, srvVars, adapterVars, program>>

\* getWalletInfo(walletType), up to its first await or its early throw
GetWalletInfoStart(c, walletType) ==
  /\ walletCalls[c].pc = "idle"
  /\ LET here == [IdleCall EXCEPT !.dispatched = wallet.currentNetwork]
         thrown == [NoWalletOut EXCEPT !.op = "getWalletInfo", !.threw = TRUE,
                                       !.dispatched = wallet.currentNetwork]
     IN  IF ~wallet.isInitialized
         THEN walletOut' = thrown /\ UNCHANGED walletCalls
         ELSE IF walletType = "browser"
                 \/ (walletType = "undefined" /\ ~wallet.privateKey /\ wallet.browserWallet)
         THEN /\ walletCalls' = [walletCalls EXCEPT ![c] = [here EXCEPT !.pc = "requestAccounts"]]
              /\ UNCHANGED walletOut
         ELSE IF wallet.privateKey
         THEN /\ walletCalls' = [walletCalls EXCEPT ![c] = [here EXCEPT !.pc = "getAccount"]]
              /\ UNCHANGED walletOut
         ELSE walletOut' = thrown /\ UNCHANGED walletCalls
  /\ UNCHANGED <<wallet, minaInstance, indexVars, regVars, srvVars, adapterVars, program>>

\* browserWallet.requestAccounts() settles; a rejection is rethrown
GetWalletInfoAccounts(c, settled) ==
  /\ walletCalls[c].pc = "requestAccounts"
  /\ IF settled = "resolves"
     THEN /\ walletCalls' = [walletCalls EXCEPT ![c].pc = "getAccount"]
          /\ UNCHANGED walletOut
     ELSE /\ walletCalls' = [walletCalls EXCEPT ![c] = IdleCall]
          /\ walletOut' = [NoWalletOut EXCEPT !.op = "getWalletInfo", !.threw = TRUE,
                                              !.dispatched = walletCalls[c].dispatched]
  /\ UNCHANGED <<wallet, minaInstance, indexVars, regVars, srvVars, adapterVars, program>>

\* the network placed in the returned WalletInfo: this.currentNetwork as
\* it is when the result object is built
GetWalletInfoResult(call, w) == w.currentNetwork

\* Mina.getAccount() settles (a rejection is swallowed) and the WalletInfo
\* is built and returned to the caller
GetWalletInfoReturn(c) ==
  /\ walletCalls[c].pc = "getAccount"
  /\ walletCalls' = [walletCalls EXCEPT ![c] = IdleCall]
  /\ walletOut' = [NoWalletOut EXCEPT !.op = "getWalletInfo",
                                      !.dispatched = walletCalls[c].dispatched,
                                      !.network = GetWalletInfoResult(walletCalls[c], wallet)]
  /\ UNCHANGED <<wallet, minaInstance, indexVars, regVars, srvVars, adapterVars, program>>

\* signTransaction(transaction, walletType): the wallet is chosen before the
\* first await; the outcome names the network the signing key was loaded on
\* (dispatched) and the network current at signing (network).
WalletSignTransaction(walletType, settled) ==
  /\ LET thrown == [NoWalletOut EXCEPT !.op = "signTransaction", !.threw = TRUE]
     IN  walletOut' =
           IF ~wallet.isInitialized THEN thrown
           ELSE IF walletType = "browser"
                   \/ (walletType = "undefined" /\ ~wallet.privateKey /\ wallet.browserWallet)
           THEN IF wallet.browserWallet /\ settled = "resolves"
                THEN [NoWalletOut EXCEPT !.op = "signTransaction", !.arg = "browser",
                                         !.network = wallet.currentNetwork]
                ELSE thrown
           ELSE IF wallet.privateKey
           THEN IF settled = "resolves"
                THEN [NoWalletOut EXCEPT !.op = "signTransaction", !.arg = "private_key",
                                         !.dispatched = wallet.keyNetwork,
                                         !.network = wallet.currentNetwork]
                ELSE thrown
           ELSE thrown
  /\ UNCHANGED <<wallet, minaInstance, walletCalls, indexVars, regVars, srvVars, 
               adapterVars, program>>

(***************************************************************************)
(* The index.ts tool handlers bound to the WalletManager that index.ts     *)
(* imports by path (services/wallet/wallet-manager.ts): the instance is    *)
(* fresh and never initialized, Mina.setActiveInstance is process-wide     *)
(***************************************************************************)
\* network_switch handler: after switchNetwork the handler calls
\* getNetworkConfig(), which this class does not have; the catch rethrows
NetworkSwitchToolO1js(network) ==
  \E minaOutcome \in MinaNetworkOutcomes(PropertyOf(MinaNetworkConfig_configs, network).endpoint) :
    LET r == Wallet_switchNetwork(Wallet_new, minaInstance, network, minaOutcome)
    IN  /\ minaInstance' = r.mina
        /\ toolResp' = [tool |-> "network_switch", threw |-> TRUE,
                        network |-> NoNetwork, configName |-> "none"]
        /\ UNCHANGED <<mockWallet, mockOut, switchedTo, wallet, walletOut, walletCalls,
                       regVars, srvVars, adapterVars, program>>

\* network_get_current handler: getNetworkConfig() is not a function
NetworkGetCurrentToolO1js ==
  /\ toolResp' = [tool |-> "network_get_current", threw |-> TRUE,
                  network |-> NoNetwork, configName |-> "none"]
  /\ UNCHANGED <<mockWallet, mockOut, switchedTo, wmVars, regVars, srvVars, adapterVars, program>>

\* wallet_get_info handler: the optional network is switched to, then
\* getWalletInfo throws 'Wallet Manager not initialized'
WalletGetInfoToolO1js(network) ==
  \E minaOutcome \in MinaNetworkOutcomes(PropertyOf(MinaNetworkConfig_configs, network).endpoint) :
    LET r == IF network # ""
             THEN Wallet_switchNetwork(Wallet_new, minaInstance, network, minaOutcome)
             ELSE [threw |-> FALSE, wallet |-> Wallet_new, mina |-> minaInstance]
    IN  /\ minaInstance' = r.mina
        /\ toolResp' = [tool |-> "wallet_get_info", threw |-> TRUE,
                        network |-> NoNetwork, configName |-> "none"]
        /\ UNCHANGED <<mockWallet, mockOut, switchedTo, wallet, walletOut, walletCalls,
                       regVars, srvVars, adapterVars, program>>

\* cleanup(): drops the key material and the browser wallet
WalletCleanup ==
  /\ wallet.isInitialized
  /\ wallet' = [wallet EXCEPT !.privateKey = FALSE, !.browserWallet = FALSE,
                              !.isInitialized = FALSE, !.keyNetwork = NoNetwork]
  /\ UNCHANGED <<minaInstance, walletOut, walletCalls, indexVars, regVars, srvVars, 
               adapterVars, program>>

(***************************************************************************)
(* JavaScript Map (insertion-ordered) and Array helpers                    *)
(***************************************************************************)
MapHas(m, k) == \E i \in DOMAIN m : m[i].key = k

MapGet(m, k) == m[CHOOSE i \in DOMAIN m : m[i].key = k].value

\* Map.set: an existing key keeps its position and takes the new value
MapSet(m, k, v) ==
  IF MapHas(m, k)
  THEN [i \in DOMAIN m |-> IF m[i].key = k THEN [key |-> k, value |-> v] ELSE m[i]]
  ELSE Append(m, [key |-> k, value |-> v])

MapDelete(m, k) == SelectSeq(m, LAMBDA e : e.key # k)

MapKeys(m) == [i \in DOMAIN m |-> m[i].key]

MapValues(m) == [i \in DOMAIN m |-> m[i].value]

SeqToSet(q) == {q[i] : i \in DOMAIN q}

\* Array.indexOf: first position holding x, 0 when absent (JavaScript's -1)
IndexOf(q, x) ==
  IF \E i \in DOMAIN q : q[i] = x
  THEN CHOOSE i \in DOMAIN q : q[i] = x /\ \A j \in 1..(i - 1) : q[j] # x
  ELSE 0

\* Array.splice(index, 1)
SpliceOne(q, index) == [i \in 1..(Len(q) - 1) |-> IF i < index THEN q[i] ELSE q[i + 1]]

(***************************************************************************)
(* ToolRegistry of unnamed/part_006                                        *)
(***************************************************************************)
ToolRegistry_new == [tools |-> <<>>, categories |-> <<>>]

\* extractCategory: toolName.split('_')[0] || 'general'
extractCategory(toolName) == IF Head(toolName) # "" THEN Head(toolName) ELSE "general"

\* registerTool(tool, handler)
registerTool(r, tool, handler) ==
  LET category == extractCategory(tool.name)
      cats1 == IF ~MapHas(r.categories, category)
               THEN MapSet(r.categories, category, <<>>) ELSE r.categories
  IN  [tools |-> MapSet(r.tools, tool.name,
                        [name |-> tool.name, handler |-> handler, tool |-> tool]),
       categories |-> MapSet(cats1, category,
                             Append(MapGet(cats1, category), tool.name))]

\* registerTools(tools): registerTool on each entry, in order
RECURSIVE registerTools(_, _)
registerTools(r, batch) ==
  IF batch = <<>> THEN r
  ELSE registerTools(registerTool(r, Head(batch).tool, Head(batch).handler), Tail(batch))

getTool(r, name) == MapGet(r.tools, name)

hasTool(r, name) == MapHas(r.tools, name)

getAllTools(r) == [i \in DOMAIN r.tools |-> r.tools[i].value.tool]

getToolCount(r) == Len(r.tools)

\* getToolsByCategory(category): the names filed under the category, each
\* looked up in the tools map, misses dropped
getToolsByCategory(r, category) ==
  LET toolNames == IF MapHas(r.categories, category)
                   THEN MapGet(r.categories, category) ELSE <<>>
      found == SelectSeq(toolNames, LAMBDA name : MapHas(r.tools, name))
  IN  [i \in DOMAIN found |-> MapGet(r.tools, found[i]).tool]

getCategories(r) == MapKeys(r.categories)

\* getStatistics(): totalTools and the (name, count) pair of each category
getStatistics(r) ==
  [totalTools |-> Len(r.tools),
   categories |-> [i \in DOMAIN r.categories |->
                     [name |-> r.categories[i].key, count |-> Len(r.categories[i].value)]],
   toolsByCategory |-> r.categories]

\* removeTool(name): [returned, registry afterwards]
removeTool(r, name) ==
  IF ~MapHas(r.tools, name) THEN [returned |-> FALSE, registry |-> r]
  ELSE LET category == extractCategory(name)
           cats == IF MapHas(r.categories, category)
                   THEN LET categoryTools == MapGet(r.categories, category)
                            index == IndexOf(categoryTools, name)
                        IN  IF index > 0
                            THEN LET spliced == SpliceOne(categoryTools, index)
                                 IN  IF Len(spliced) = 0
                                     THEN MapDelete(r.categories, category)
                                     ELSE MapSet(r.categories, category, spliced)
                            ELSE r.categories
                   ELSE r.categories
       IN  [returned |-> TRUE,
            registry |-> [tools |-> MapDelete(r.tools, name), categories |-> cats]]

\* clear()
clear(r) == [tools |-> <<>>, categories |-> <<>>]

\* validateTool(tool).valid; the inputSchema check only fires for a schema
\* that is present and is not an object
validateTool(r, tool) ==
  /\ tool.name # <<"">>
  /\ tool.description # ""
  /\ ~MapHas(r.tools, tool.name)
  /\ ~(tool.inputSchema.jsType \notin {"undefined", "object"})

(***************************************************************************)
(* ToolRegistry of unnamed/part_007 (tools: Map<string, ToolHandler>)      *)
(***************************************************************************)
\* register(handler)
ToolRegistry7_register(tools, handler) == MapSet(tools, handler.tool.name, handler)

\* unregister(name): Map.delete reports whether the key was present
ToolRegistry7_unregister(tools, name) ==
  [returned |-> MapHas(tools, name), tools |-> MapDelete(tools, name)]

ToolRegistry7_has(tools, name) == MapHas(tools, name)

\* list(): the definitions, an empty description replaced by a placeholder
ToolRegistry7_list(tools) ==
  [i \in DOMAIN tools |->
     [name |-> tools[i].value.tool.name,
      description |-> IF tools[i].value.tool.description # ""
                      THEN tools[i].value.tool.description
                      ELSE "No description available",
      category |-> tools[i].value.tool.category,
      inputSchema |-> tools[i].value.tool.inputSchema]]

ToolRegistry7_listByCategory(tools, category) ==
  SelectSeq(ToolRegistry7_list(tools), LAMBDA t : t.category = category)

\* execute(name, args): a miss throws 'Tool not found'; otherwise the
\* handler's own outcome (returned value or thrown error) is passed on
ToolRegistry7_execute(tools, name, handlerOutcome) ==
  IF ~MapHas(tools, name)
  THEN [threw |-> TRUE, message |-> "Tool not found: {name}", ran |-> "none"]
  ELSE [threw |-> handlerOutcome = "throws",
        message |-> IF handlerOutcome = "throws" THEN "handler error" ELSE "none",
        ran |-> MapGet(tools, name).handler]

(***************************************************************************)
(* Inputs and operations of the registry programs                          *)
(***************************************************************************)
\* Cap on the number of registerTool calls since the registry was last empty.
MaxEntries == 3

\* Longest batch handed to registerTools.
MaxBatch == 2

\* Argument fields used by the contract tools, and the values tried for them.
Fields == {"contractType", "network", "contractAddress", "methodName"}

Absent == "<absent>"

ArgValues == {"compliance", "bogus", "local", "moon", "B62q", "", "method"}

ContractTypes == {"compliance", "gleif", "exim", "bpmn", "actus", "data_integrity"}

Unconstrained == [f \in Fields |-> ArgValues]

\* An inputSchema: the JavaScript type of the value, the schema's root
\* 'type', its 'required' list and the 'enum' of each property.
Schema(required, enum) ==
  [jsType |-> "object", type |-> "object", required |-> required, enum |-> enum]

ObjectSchema == Schema({}, Unconstrained)

\* Tool definitions offered for registration: two definitions share a name,
\* one name has no separator, and three are invalid (empty name, empty
\* description, a schema that is not an object).
ToolInputs ==
  { [name |-> <<"contract", "deploy">>,  description |-> "Deploy a contract", inputSchema |-> ObjectSchema],
    [name |-> <<"contract", "deploy">>,  description |-> "Deploy (second definition)", inputSchema |-> ObjectSchema],
    [name |-> <<"wallet", "get", "info">>, description |-> "Get wallet information", inputSchema |-> ObjectSchema],
    [name |-> <<"echo">>,                description |-> "Echo", inputSchema |-> ObjectSchema],
    [name |-> <<"">>,                    description |-> "Nameless", inputSchema |-> ObjectSchema],
    [name |-> <<"contract", "compile">>, description |-> "", inputSchema |-> ObjectSchema],
    [name |-> <<"bpmn", "verify">>,      description |-> "Verify a process",
     inputSchema |-> [jsType |-> "string", type |-> "none",
                      required |-> {}, enum |-> Unconstrained]] }

ToolNameInputs == {t.name : t \in ToolInputs} \cup {<<"unknown", "tool", "xyz">>}

HandlerIds == {"h1", "h2"}

\* Every definition bound to handler h1, and the first one also to h2.
EntryInputs ==
  {[tool |-> t, handler |-> "h1"] : t \in ToolInputs}
    \cup {[tool |-> t, handler |-> "h2"] :
            t \in {u \in ToolInputs : u.description = "Deploy a contract"}}

BatchInputs == UNION {[1..n -> EntryInputs] : n \in 1..MaxBatch}

\* Number of names held in the category lists.
CategoryEntries(r) ==
  LET RECURSIVE Sum(_)
      Sum(q) == IF q = <<>> THEN 0 ELSE Len(Head(q).value) + Sum(Tail(q))
  IN  Sum(r.categories)

NoRegOut == [op |-> "none", name |-> <<"none">>, threw |-> FALSE, returned |-> FALSE,
             ran |-> "none"]

RegisterTool(tool, handler) ==
  /\ program = "registry"
  /\ CategoryEntries(registry) < MaxEntries
  /\ registry' = registerTool(registry, tool, handler)
  /\ regOut' = [NoRegOut EXCEPT !.op = "registerTool", !.name = tool.name]
  /\ UNCHANGED <<registry7, indexVars, wmVars, srvVars, adapterVars, program>>

RegisterTools(batch) ==
  /\ program = "registry"
  /\ CategoryEntries(registry) + Len(batch) <= MaxEntries
  /\ registry' = registerTools(registry, batch)
  /\ regOut' = [NoRegOut EXCEPT !.op = "registerTools"]
  /\ UNCHANGED <<registry7, indexVars, wmVars, srvVars, adapterVars, program>>

RemoveTool(name) ==
  /\ program = "registry"
  /\ LET r == removeTool(registry, name)
     IN  /\ registry' = r.registry
         /\ regOut' = [NoRegOut EXCEPT !.op = "removeTool", !.name = name,
                                       !.returned = r.returned]
  /\ UNCHANGED <<registry7, indexVars, wmVars, srvVars, adapterVars, program>>

Clear ==
  /\ program = "registry"
  /\ registry' = clear(registry)
  /\ regOut' = [NoRegOut EXCEPT !.op = "clear"]
  /\ UNCHANGED <<registry7, indexVars, wmVars, srvVars, adapterVars, program>>

\* part_007 definitions carry their category as a stored field
Handler7(entry) ==
  [tool |-> [name |-> entry.tool.name, description |-> entry.tool.description,
             category |-> extractCategory(entry.tool.name),
             inputSchema |-> entry.tool.inputSchema],
   handler |-> entry.handler]

Register7(entry) ==
  /\ program = "registry7"
  /\ MapHas(registry7, entry.tool.name) \/ Len(registry7) < MaxEntries
  /\ registry7' = ToolRegistry7_register(registry7, Handler7(entry))
  /\ regOut' = [NoRegOut EXCEPT !.op = "register", !.name = entry.tool.name]
  /\ UNCHANGED <<registry, indexVars, wmVars, srvVars, adapterVars, program>>

Unregister7(name) ==
  /\ program = "registry7"
  /\ LET r == ToolRegistry7_unregister(registry7, name)
     IN  /\ registry7' = r.tools
         /\ regOut' = [NoRegOut EXCEPT !.op = "unregister", !.name = name,
                                       !.returned = r.returned]
  /\ UNCHANGED <<registry, indexVars, wmVars, srvVars, adapterVars, program>>

Execute7(name, handlerOutcome) ==
  /\ program = "registry7"
  /\ LET r == ToolRegistry7_execute(registry7, name, handlerOutcome)
     IN  regOut' = [NoRegOut EXCEPT !.op = "execute", !.name = name,
                                    !.threw = r.threw, !.ran = r.ran]
  /\ UNCHANGED <<registry, registry7, indexVars, wmVars, srvVars, adapterVars, program>>

Clear7 ==
  /\ program = "registry7"
  /\ registry7' = <<>>
  /\ regOut' = [NoRegOut EXCEPT !.op = "clear"]
  /\ UNCHANGED <<registry, indexVars, wmVars, srvVars, adapterVars, program>>

(***************************************************************************)
(* ContractToolHandlers (server/tool-handlers/contract_tools.ts)           *)
(***************************************************************************)
\* z.object schemas: declared keys, required keys, enum constraints and the
\* keys that carry .min(1).  Undeclared keys are stripped, not rejected.
ZodSchema(keys, required, enum, min1) ==
  [keys |-> keys, required |-> required, enum |-> enum, min1 |-> min1]

DeployContractSchema ==
  ZodSchema({"contractType", "network"}, {"contractType", "network"},
            [Unconstrained EXCEPT !["contractType"] = ContractTypes,
                                  !["network"] = NetworkTypes], {})

GetContractStateSchema ==
  ZodSchema({"contractAddress", "network"}, {"contractAddress", "network"},
            [Unconstrained EXCEPT !["network"] = NetworkTypes], {"contractAddress"})

CompileContractSchema ==
  ZodSchema({"contractType"}, {"contractType"},
            [Unconstrained EXCEPT !["contractType"] = ContractTypes], {})

CallContractMethodSchema ==
  ZodSchema({"contractAddress", "methodName", "network"}, {"contractAddress", "methodName"},
            [Unconstrained EXCEPT !["network"] = NetworkTypes],
            {"contractAddress", "methodName"})

\* Handlers that validate nothing.
NoZodSchema == ZodSchema({}, {}, Unconstrained, {})

\* schema.parse(args) throws a ZodError
ZodParseThrows(schema, args) ==
  \E f \in schema.keys :
    \/ f \in schema.required /\ args[f] = Absent
    \/ args[f] # Absent /\ args[f] \notin schema.enum[f]
    \/ args[f] # Absent /\ f \in schema.min1 /\ args[f] = ""

\* The tools array built by initializeTools, in its order.
ContractToolHandlers_tools ==
  << [tool |-> [name |-> <<"contract", "deploy">>,
                description |-> "Deploy a ZK-PRET smart contract to the specified Mina network",
                inputSchema |-> Schema({"contractType", "network"},
                   [Unconstrained EXCEPT !["contractType"] = ContractTypes,
                                         !["network"] = NetworkTypes])],
      handler |-> "handleDeployContract"],
     [tool |-> [name |-> <<"contract", "compile">>,
                description |-> "Compile a ZK-PRET smart contract",
                inputSchema |-> Schema({"contractType"},
                   [Unconstrained EXCEPT !["contractType"] = ContractTypes])],
      handler |-> "handleCompileContract"],
     [tool |-> [name |-> <<"contract", "get", "state">>,
                description |-> "Get the current state of a deployed contract",
                inputSchema |-> Schema({"contractAddress", "network"},
                   [Unconstrained EXCEPT !["network"] = NetworkTypes])],
      handler |-> "handleGetContractState"],
     [tool |-> [name |-> <<"contract", "call", "method">>,
                description |-> "Call a method on a deployed contract",
                inputSchema |-> Schema({"contractAddress", "methodName"},
                   [Unconstrained EXCEPT !["network"] = NetworkTypes])],
      handler |-> "handleCallContractMethod"],
     [tool |-> [name |-> <<"contract", "list", "deployed">>,
                description |-> "List all deployed contracts",
                inputSchema |-> Schema({},
                   [Unconstrained EXCEPT !["contractType"] = ContractTypes,
                                         !["network"] = NetworkTypes])],
      handler |-> "handleListDeployedContracts"],
     [tool |-> [name |-> <<"contract", "get", "compiled">>,
                description |-> "Get information about compiled contracts",
                inputSchema |-> Schema({},
                   [Unconstrained EXCEPT !["contractType"] = ContractTypes])],
      handler |-> "handleGetCompiledContracts"],
     [tool |-> [name |-> <<"contract", "load", "existing">>,
                description |-> "Load an existing deployed contract",
                inputSchema |-> Schema({"contractAddress", "contractType"},
                   [Unconstrained EXCEPT !["contractType"] = ContractTypes,
                                         !["network"] = NetworkTypes])],
      handler |-> "handleLoadExistingContract"] >>

\* The zod schema each handler parses its arguments with.
HandlerSchema(handler) ==
  CASE handler = "handleDeployContract"     -> DeployContractSchema
    [] handler = "handleCompileContract"    -> CompileContractSchema
    [] handler = "handleGetContractState"   -> GetContractStateSchema
    [] handler = "handleCallContractMethod" -> CallContractMethodSchema
    [] OTHER                                -> NoZodSchema

\* The text each handler puts in front of the error it caught.
HandlerFailureText(handler) ==
  CASE handler = "handleDeployContract"        -> "Contract deployment failed: {message}"
    [] handler = "handleCompileContract"       -> "Contract compilation failed: {message}"
    [] handler = "handleGetContractState"      -> "Failed to get contract state: {message}"
    [] handler = "handleCallContractMethod"    -> "Contract method call failed: {message}"
    [] handler = "handleListDeployedContracts" -> "Failed to list deployed contracts: {message}"
    [] handler = "handleGetCompiledContracts"  -> "Failed to get compiled contracts: {message}"
    [] handler = "handleLoadExistingContract"  -> "Failed to load contract: {message}"
    [] OTHER                                   -> "Verification failed: {message}"

\* A hasTool that overlooks the last entry of the tools array.
GroupHasTool_skipLast(group, name) ==
  \E i \in 1..(Len(group) - 1) : group[i].tool.name = name

\* hasTool(name): this.tools.some(t => t.tool.name === name)
GroupHasTool(group, name) == \E i \in DOMAIN group : group[i].tool.name = name

\* handleTool(name): this.tools.find(...), the first entry under that name
GroupFindTool(group, name) ==
  group[CHOOSE i \in DOMAIN group :
          group[i].tool.name = name /\ \A j \in 1..(i - 1) : group[j].tool.name # name]

\* getTools() of a handler group whose module is not part of the sources:
\* it supplies (definition, handler) pairs like the contract group does.
ComplianceToolHandlers_tools ==
  << [tool |-> [name |-> <<"compliance", "verify">>,
                description |-> "Verify compliance of an entity",
                inputSchema |-> Schema({}, Unconstrained)],
      handler |-> "handleVerifyCompliance"] >>

\* The handler groups in the order handleToolCall consults them.
HandlerGroups == <<ContractToolHandlers_tools, ComplianceToolHandlers_tools>>

\* What getTools() of the group outside the sources may supply besides its
\* own tool: a definition under a name the contract group already uses, or
\* a definition without a description.
ComplianceToolHandlers_inputs ==
  { ComplianceToolHandlers_tools,
    Append(ComplianceToolHandlers_tools,
           [tool |-> [name |-> <<"contract", "deploy">>,
                      description |-> "Deploy a compliance contract",
                      inputSchema |-> Schema({}, Unconstrained)],
            handler |-> "handleVerifyCompliance"]),
    Append(ComplianceToolHandlers_tools,
           [tool |-> [name |-> <<"compliance", "report">>,
                      description |-> "",
                      inputSchema |-> Schema({}, Unconstrained)],
            handler |-> "handleVerifyCompliance"]) }

\* The handler groups a server may be constructed with.
GroupInputs == {<<ContractToolHandlers_tools, g>> : g \in ComplianceToolHandlers_inputs}

\* The process of unnamed/part_002 before start(): `kind` is
\* options.transport, `step` counts the completed steps of start(), `http`
\* is the state of httpServer, exitCode is -1 while the process lives, and
\* `drain` remembers the calls that were in flight when shutdown began.
Lifecycle_new(groups) ==
  [groups |-> groups, kind |-> "stdio", step |-> 0, transport |-> "none", http |-> "none",
   shutdownHandlers |-> FALSE, exitCode |-> -1, drain |-> {}]

\* The handler groups of the server under consideration.
ActiveGroups == lifecycle.groups

\* process.exit has not been called
ProcessAlive == lifecycle.exitCode = -1

\* A request can reach the CallTool handler and its reply can leave: the
\* server object is driven directly, or the stdio transport is connected.
TransportOpen == program = "server" \/ lifecycle.transport = "connected"

(***************************************************************************)
(* ZKPRETMCPServer (unnamed/part_005): bootstrap and handleToolCall        *)
(***************************************************************************)
\* Number of handleToolCall invocations that may be in flight together.
MaxInFlight == 2

CallSlots == 1..MaxInFlight

\* Argument objects tried in tool calls (a field is Absent or holds a value).
Args(contractType, network, contractAddress, methodName) ==
  [contractType |-> contractType, network |-> network,
   contractAddress |-> contractAddress, methodName |-> methodName]

ArgInputs ==
  { Args(Absent, Absent, Absent, Absent),
    Args("compliance", "local", Absent, Absent),
    Args("compliance", "moon", Absent, Absent),
    Args("compliance", "local", "B62q", "method"),
    Args("compliance", "local", "", "method"),
    Args("bogus", Absent, "B62q", Absent) }

\* Tool names tried in tool calls: every name of the handler groups and
\* two names no group knows.
CallNameInputs ==
  UNION {{HandlerGroups[g][i].tool.name : i \in DOMAIN HandlerGroups[g]} :
           g \in DOMAIN HandlerGroups}
    \cup {<<"unknown", "tool", "xyz">>, <<"contract">>}

\* Messages of the errors raised by the services behind the handlers.
ErrorMessages == {"Insufficient balance"}

\* args satisfy the tool's declared inputSchema
MatchesShape(args, schema) ==
  \A f \in Fields :
    /\ f \in schema.required => args[f] # Absent
    /\ args[f] # Absent => args[f] \in schema.enum[f]

\* A CallToolResult handed back to the MCP server (kind "result"), or an
\* error that leaves the request handler as a rejection (kind "error").
Result(isError, text, message) ==
  [kind |-> "result", isError |-> isError, text |-> text, message |-> message]

NoResult == [kind |-> "none", isError |-> FALSE, text |-> "none", message |-> "none"]

UnknownToolMessage == "Unknown tool: {toolName}"

\* A catch block that logs the error and returns nothing.
CatchResult_logOnly(message) == NoResult

\* the catch block of handleToolCall
CatchResult(message) == Result(TRUE, "Error executing {toolName}: {message}", message)

IdleSlot ==
  [pc |-> "idle", toolName |-> <<"none">>, validArgs |-> FALSE,
   handler |-> "none", settled |-> "none", resp |-> NoResult]

\* index of the first handler group that has the tool, 0 when none has
RouteToGroup(toolName) ==
  IF \E g \in DOMAIN ActiveGroups : GroupHasTool(ActiveGroups[g], toolName)
  THEN CHOOSE g \in DOMAIN ActiveGroups :
         /\ GroupHasTool(ActiveGroups[g], toolName)
         /\ \A h \in 1..(g - 1) : ~GroupHasTool(ActiveGroups[h], toolName)
  ELSE 0

\* registerTools(): every group's getTools() goes through registerTools
RECURSIVE RegisterGroups(_, _)
RegisterGroups(r, groups) ==
  IF groups = <<>> THEN r
  ELSE RegisterGroups(registerTools(r, Head(groups)), Tail(groups))

\* initialize(): the services come up, then the request handlers and the
\* tools are registered; a failing service aborts before either
ServerInitialize(servicesOk) ==
  /\ program = "server"
  /\ ~mcpHandlers
  /\ IF servicesOk
     THEN /\ mcpHandlers' = TRUE
          /\ toolRegistry' = RegisterGroups(toolRegistry, ActiveGroups)
          /\ isInitialized' = TRUE
     ELSE UNCHANGED <<mcpHandlers, toolRegistry, isInitialized>>
  /\ UNCHANGED <<calls, indexVars, wmVars, regVars, adapterVars, program>>

\* handleToolCall(toolName, args) up to the handler's first await
HandleToolCall(c, toolName, args) ==
  /\ program \in {"server", "bootstrap"}
  /\ ProcessAlive /\ TransportOpen
  /\ mcpHandlers
  /\ calls[c].pc = "idle"
  /\ LET g == RouteToGroup(toolName)
     IN  IF g = 0
         THEN calls' = [calls EXCEPT ![c] =
                [IdleSlot EXCEPT !.pc = "done", !.toolName = toolName,
                                 !.resp = CatchResult(UnknownToolMessage)]]
         ELSE LET entry == GroupFindTool(ActiveGroups[g], toolName)
                  here == [IdleSlot EXCEPT
                             !.toolName = toolName,
                             !.validArgs = MatchesShape(args, entry.tool.inputSchema),
                             !.handler = entry.handler]
              IN  IF ZodParseThrows(HandlerSchema(entry.handler), args)
                  THEN calls' = [calls EXCEPT ![c] =
                         [here EXCEPT !.pc = "done", !.settled = "zodError",
                                      !.resp = Result(TRUE, HandlerFailureText(entry.handler),
                                                      "ZodError")]]
                  ELSE calls' = [calls EXCEPT ![c] = [here EXCEPT !.pc = "awaiting"]]
  /\ UNCHANGED <<toolRegistry, isInitialized, mcpHandlers, indexVars, wmVars, regVars, 
               adapterVars, program>>

\* The service awaited by a contract handler settles: a result is rendered
\* as text; a rejection, or any fault thrown inside the handler's try, is
\* caught by the handler and reported with isError and the error's message
ContractHandlerSettle(c, settled, message) ==
  /\ program \in {"server", "bootstrap"}
  /\ ProcessAlive
  /\ calls[c].pc = "awaiting"
  /\ calls[c].handler # "handleVerifyCompliance"
  /\ settled \in {"resolves", "rejects", "throws"}
  /\ calls' = [calls EXCEPT
       ![c].pc = "done",
       ![c].settled = settled,
       ![c].resp = IF settled = "resolves"
                   THEN Result(FALSE, "success text", "none")
                   ELSE Result(TRUE, HandlerFailureText(calls[c].handler), message)]
  /\ UNCHANGED <<toolRegistry, isInitialized, mcpHandlers, indexVars, wmVars, regVars, 
               adapterVars, program>>

\* A handler of a group outside the sources ends: it returns a result,
\* returns a result flagged isError, or throws into handleToolCall's catch
OtherHandlerSettle(c, settled, message) ==
  /\ program \in {"server", "bootstrap"}
  /\ ProcessAlive
  /\ calls[c].pc = "awaiting"
  /\ calls[c].handler = "handleVerifyCompliance"
  /\ settled \in {"resolves", "rejects", "throws"}
  /\ calls' = [calls EXCEPT
       ![c].pc = "done",
       ![c].settled = settled,
       ![c].resp = CASE settled = "resolves" -> Result(FALSE, "success text", "none")
                     [] settled = "rejects"  -> Result(TRUE, HandlerFailureText(calls[c].handler), message)
                     [] settled = "throws"   -> CatchResult(message)]
  /\ UNCHANGED <<toolRegistry, isInitialized, mcpHandlers, indexVars, wmVars, regVars, 
               adapterVars, program>>

\* The MCP server sends the result; the slot is free for the next request
CallReply(c) ==
  /\ program \in {"server", "bootstrap"}
  /\ ProcessAlive /\ TransportOpen
  /\ calls[c].pc = "done"
  /\ calls' = [calls EXCEPT ![c] = IdleSlot]
  /\ lifecycle' = [lifecycle EXCEPT !.drain = @ \ {c}]
  /\ UNCHANGED <<toolRegistry, isInitialized, mcpHandlers, indexVars, wmVars, regVars,
                 shutdowns, sseVars, cfgVars, program>>

\* cleanup(): services and wallet manager are cleaned up, the registry is
\* cleared; the request handlers stay installed on the MCP server
ServerCleanup ==
  /\ program = "server"
  /\ isInitialized
  /\ toolRegistry' = clear(toolRegistry)
  /\ isInitialized' = FALSE
  /\ wallet' = [wallet EXCEPT !.privateKey = FALSE, !.browserWallet = FALSE,
                              !.isInitialized = FALSE, !.keyNetwork = NoNetwork]
  /\ UNCHANGED <<mcpHandlers, calls, minaInstance, walletOut, walletCalls,
                 indexVars, regVars, adapterVars, program>>

(***************************************************************************)
(* ZKPRETMCPServerBootstrap (unnamed/part_002): start() and shutdown        *)
(***************************************************************************)
\* Number of shutdown(signal) invocations that may overlap.
MaxShutdowns == 2

\* The awaited steps of start(), in program order.
StartSequence == <<"walletManager.initialize", "zkpretServer.initialize", "setupTransport">>

\* What reaches the handlers installed by setupGracefulShutdown.
ShutdownSignals == {"SIGINT", "SIGTERM", "SIGQUIT", "uncaughtException", "unhandledRejection"}

\* the catch block of start(): process.exit(1)
StartFailed == [lifecycle EXCEPT !.exitCode = 1]

\* start(): await walletManager.initialize()
StartWalletInitialize(ok, envKey, envNetwork) ==
  /\ program = "bootstrap"
  /\ ProcessAlive
  /\ lifecycle.step < Len(StartSequence)
  /\ StartSequence[lifecycle.step + 1] = "walletManager.initialize"
  /\ IF ok
     THEN LET r == Wallet_initialize(wallet, minaInstance, walletOut, envKey, envNetwork)
          IN  /\ wallet' = r.wallet
              /\ minaInstance' = r.mina
              /\ walletOut' = r.out
              /\ lifecycle' = [lifecycle EXCEPT !.step = @ + 1]
     ELSE /\ lifecycle' = StartFailed
          /\ UNCHANGED <<wallet, minaInstance, walletOut>>
  /\ UNCHANGED <<walletCalls, indexVars, regVars, srvVars, shutdowns, sseVars, cfgVars, program>>

\* start(): await zkpretServer.initialize(); a service that fails to come
\* up makes initialize() rethrow, registration itself raises nothing
StartServerInitialize(servicesOk) ==
  /\ program = "bootstrap"
  /\ ProcessAlive
  /\ lifecycle.step < Len(StartSequence)
  /\ StartSequence[lifecycle.step + 1] = "zkpretServer.initialize"
  /\ IF servicesOk
     THEN /\ mcpHandlers' = TRUE
          /\ toolRegistry' = RegisterGroups(toolRegistry, ActiveGroups)
          /\ isInitialized' = TRUE
          /\ lifecycle' = [lifecycle EXCEPT !.step = @ + 1]
     ELSE /\ lifecycle' = StartFailed
          /\ UNCHANGED <<mcpHandlers, toolRegistry, isInitialized>>
  /\ UNCHANGED <<calls, indexVars, wmVars, regVars, shutdowns, sseVars, cfgVars, program>>

\* start(): await setupTransport(), which for 'sse' also starts the HTTP
\* listener, then setupGracefulShutdown() in the same continuation
StartSetupTransport(connected) ==
  /\ program = "bootstrap"
  /\ ProcessAlive
  /\ lifecycle.step < Len(StartSequence)
  /\ StartSequence[lifecycle.step + 1] = "setupTransport"
  /\ lifecycle' = IF connected
                  THEN [lifecycle EXCEPT
                          !.step = @ + 1, !.transport = "connected",
                          !.http = IF lifecycle.kind = "sse" THEN "listening" ELSE "none",
                          !.shutdownHandlers = TRUE]
                  ELSE StartFailed
  /\ UNCHANGED <<indexVars, wmVars, regVars, srvVars, shutdowns, sseVars, cfgVars, program>>

\* walletManager.cleanup(), run to its end inside zkpretServer.cleanup()
\* before that awaits the services
WalletCleared ==
  [wallet EXCEPT !.privateKey = FALSE, !.browserWallet = FALSE,
                 !.isInitialized = FALSE, !.keyNetwork = NoNetwork]

\* A signal or a stray error reaches the process: shutdown(signal) runs up
\* to its first await. With an HTTP listener that is the wait for
\* httpServer.close(); without one it is inside zkpretServer.cleanup()
ShutdownSignal(signal) ==
  /\ program = "bootstrap"
  /\ ProcessAlive
  /\ lifecycle.shutdownHandlers
  /\ signal \in ShutdownSignals
  /\ Len(shutdowns) < MaxShutdowns
  /\ LET drain == IF shutdowns = <<>>
                  THEN {c \in CallSlots : calls[c].pc # "idle"} ELSE lifecycle.drain
     IN  IF lifecycle.http = "none"
         THEN /\ shutdowns' = Append(shutdowns, "cleanup")
              /\ wallet' = WalletCleared
              /\ lifecycle' = [lifecycle EXCEPT !.drain = drain]
         ELSE /\ shutdowns' = Append(shutdowns, "http")
              /\ lifecycle' = [lifecycle EXCEPT
                                 !.drain = drain,
                                 !.http = IF @ = "listening" THEN "closing" ELSE @]
              /\ UNCHANGED wallet
  /\ UNCHANGED <<minaInstance, walletOut, walletCalls, indexVars, regVars, srvVars,
                 sseVars, cfgVars, program>>

\* The listener emits 'close': the close() that stopped the running
\* listener is called back without error and its shutdown goes on into
\* zkpretServer.cleanup(); a close() issued on the listener when it was no
\* longer running is called back with an error, and that shutdown's catch
\* block calls process.exit(1)
HttpCloseEmitted ==
  /\ program = "bootstrap"
  /\ ProcessAlive
  /\ \E i \in DOMAIN shutdowns : shutdowns[i] = "http"
  /\ LET first == shutdowns[1] = "http"
         refused == \E i \in DOMAIN shutdowns : i > 1 /\ shutdowns[i] = "http"
     IN  /\ shutdowns' = IF first THEN [shutdowns EXCEPT ![1] = "cleanup"] ELSE shutdowns
         /\ wallet' = IF first THEN WalletCleared ELSE wallet
         /\ lifecycle' = [lifecycle EXCEPT !.http = "closed",
                                           !.exitCode = IF refused THEN 1 ELSE @]
  /\ UNCHANGED <<minaInstance, walletOut, walletCalls, indexVars, regVars, srvVars,
                 sseVars, cfgVars, program>>

\* The services' cleanups have settled: zkpretServer.cleanup() clears the
\* registry and returns, shutdown goes on to mcpServer.close()
ShutdownCleanupSettled(i) ==
  /\ program = "bootstrap"
  /\ ProcessAlive
  /\ i \in DOMAIN shutdowns
  /\ shutdowns[i] = "cleanup"
  /\ toolRegistry' = clear(toolRegistry)
  /\ isInitialized' = FALSE
  /\ lifecycle' = [lifecycle EXCEPT !.transport = "closed"]
  /\ shutdowns' = [shutdowns EXCEPT ![i] = "close"]
  /\ UNCHANGED <<mcpHandlers, calls, indexVars, wmVars, regVars, sseVars, cfgVars, program>>

\* mcpServer.close() has settled: process.exit(0), or process.exit(1) from
\* the catch block when it rejected
ShutdownCloseSettled(i, closed) ==
  /\ program = "bootstrap"
  /\ ProcessAlive
  /\ i \in DOMAIN shutdowns
  /\ shutdowns[i] = "close"
  /\ lifecycle' = [lifecycle EXCEPT !.exitCode = IF closed THEN 0 ELSE 1]
  /\ UNCHANGED <<indexVars, wmVars, regVars, srvVars, shutdowns, sseVars, cfgVars, program>>

(***************************************************************************)
(* The SSE adapters: sse-server.ts and ZKPretMCPServer.startSSE            *)
(***************************************************************************)
\* "sse" is the express app of sse-server.ts, "startSSE" the one built by
\* ZKPretMCPServer.startSSE (server/zkpret-mcp-server.ts).
SsePrograms == {"sse", "startSSE"}

\* Session identifiers drawn by Math.random().toString(36).substr(2, 9).
SessionIds == {"k3x9f0a1z", "p7q2m5b8c"}

\* What a client may put in the sessionId query parameter.
SessionIdInputs == SessionIds \cup {"zzzzzzzzz", "constructor"}

\* The id member of a posted JSON body, as JSON text; Absent when the body
\* has none.
RequestIdInputs == {Absent, "0", "7", "''", "'req-1'"}

\* JavaScript falsy values among the ids: undefined, 0 and the empty string
FalsyIds == {Absent, "0", "''"}

\* id || null
OrNull(id) == IF id \in FalsyIds THEN "null" ELSE id

\* new SSEServerTransport('/messages', res)
SSEServerTransport_new(sessionId) ==
  [kind |-> "transport", name |-> sessionId, endpoint |-> "/messages"]

NoConn == [pc |-> "free", stream |-> "none", listening |-> FALSE, keepAlive |-> FALSE,
           lastEvent |-> "none"]

NoSseResp == [sessionId |-> "none", requestId |-> Absent, status |-> 0, code |-> 0,
              body |-> "none", id |-> Absent, forwarded |-> FALSE]

\* delete transports[sessionId]
DeleteKey(obj, key) == [k \in DOMAIN obj \ {key} |-> obj[k]]

\* transports[sessionId] = transport
SetKey(obj, key, value) == [k \in DOMAIN obj \cup {key} |-> IF k = key THEN value ELSE obj[k]]

\* GET /health: activeSessions = Object.keys(transports).length
Health_activeSessions == Cardinality(ObjectKeys(transports))

\* GET /sse up to `await server.connect(transport)`: the headers are
\* written, the transport is stored under a fresh session id and the
\* session event is sent
GetSse(sessionId) ==
  /\ program \in SsePrograms
  /\ conns[sessionId].pc = "free"
  /\ transports' = SetKey(transports, sessionId, SSEServerTransport_new(sessionId))
  /\ conns' = [conns EXCEPT ![sessionId] =
        [NoConn EXCEPT !.pc = "connecting", !.stream = "open", !.lastEvent = "session"]]
  /\ UNCHANGED <<sseResp, indexVars, wmVars, regVars, srvVars, bootVars, cfgVars, program>>

\* server.connect(transport) settles: the disconnect handlers (and in
\* sse-server.ts the keep-alive timer) are installed, or the catch block
\* runs with the headers already sent and the stored transport stays
SseConnectSettled(sessionId, connected) ==
  /\ program \in SsePrograms
  /\ conns[sessionId].pc = "connecting"
  /\ conns' = [conns EXCEPT ![sessionId] =
        IF connected
        THEN [@ EXCEPT !.pc = "open", !.listening = TRUE, !.keepAlive = (program = "sse")]
        ELSE [@ EXCEPT !.pc = "failed"]]
  /\ UNCHANGED <<transports, sseResp, indexVars, wmVars, regVars, srvVars, bootVars, cfgVars, program>>

\* The client goes away: 'close' is emitted once, to the handlers that are
\* installed at that moment
ClientClose(sessionId) ==
  /\ program \in SsePrograms
  /\ conns[sessionId].stream = "open"
  /\ IF conns[sessionId].listening
     THEN /\ transports' = DeleteKey(transports, sessionId)
          /\ conns' = [conns EXCEPT ![sessionId].stream = "closed",
                                    ![sessionId].keepAlive = FALSE]
     ELSE /\ conns' = [conns EXCEPT ![sessionId].stream = "closed"]
          /\ UNCHANGED transports
  /\ UNCHANGED <<sseResp, indexVars, wmVars, regVars, srvVars, bootVars, cfgVars, program>>

\* req.on('error') of sse-server.ts
ReqError(sessionId) ==
  /\ program = "sse"
  /\ conns[sessionId].listening
  /\ conns[sessionId].stream = "open"
  /\ transports' = DeleteKey(transports, sessionId)
  /\ UNCHANGED <<conns, sseResp, indexVars, wmVars, regVars, srvVars, bootVars, cfgVars, program>>

\* The keep-alive timer of sse-server.ts fires; the response can have been
\* ended only once its stream is closed
KeepAliveTick(sessionId, writableEnded) ==
  /\ program = "sse"
  /\ conns[sessionId].keepAlive
  /\ writableEnded => conns[sessionId].stream = "closed"
  /\ IF writableEnded
     THEN /\ transports' = DeleteKey(transports, sessionId)
          /\ conns' = [conns EXCEPT ![sessionId].keepAlive = FALSE]
     ELSE /\ conns' = [conns EXCEPT ![sessionId].lastEvent = "ping"]
          /\ UNCHANGED transports
  /\ UNCHANGED <<sseResp, indexVars, wmVars, regVars, srvVars, bootVars, cfgVars, program>>

\* POST /messages?sessionId=...: without a stored transport the reply is
\* the 400 error; otherwise receipt is acknowledged. The message is handed
\* neither to the transport nor to the server behind it
PostMessages(sessionId, id) ==
  /\ program \in SsePrograms
  /\ LET transport == PropertyOf(transports, sessionId)
         here == [NoSseResp EXCEPT !.sessionId = sessionId, !.requestId = id]
     IN  sseResp' = IF ~Truthy(transport)
                    THEN [here EXCEPT !.status = 400, !.code = -32000, !.body = "error",
                                      !.id = "null"]
                    ELSE [here EXCEPT !.status = 200, !.body = "received",
                                      !.id = IF program = "sse" THEN OrNull(id) ELSE id]
  /\ UNCHANGED <<transports, conns, indexVars, wmVars, regVars, srvVars, bootVars, cfgVars, program>>

(***************************************************************************)
(* Entry points: command line and environment                              *)
(***************************************************************************)
\* "autoMain" is main() of unnamed/part_002 (310-349), "serverMain" the
\* parseArgs()/main() pair further down the same file (370-462),
\* "indexMain" parseArgs() of unnamed/part_001 and "legacyMain" main() of
\* unnamed/part_000.
EntryPoints == {"autoMain", "serverMain", "indexMain", "legacyMain"}

TransportTypes == {"stdio", "sse"}

LogLevels == {"debug", "info", "warn", "error"}

\* parseInt that found no digits
NaN == -1

\* a port that was never assigned
NoPort == -2

\* parseInt(text) on the texts tried as ports; undefined parses to NaN
ParseInt(text) ==
  CASE text = "8080" -> 8080
    [] text = "9090" -> 9090
    [] text = "3001" -> 3001
    [] text = "0"    -> 0
    [] OTHER         -> NaN

\* parseInt(text) || fallback
ParseIntOr(text, fallback) ==
  IF ParseInt(text) = NaN \/ ParseInt(text) = 0 THEN fallback ELSE ParseInt(text)

\* args[i], undefined past the end
ArgAt(args, i) == IF i \in DOMAIN args THEN args[i] ELSE Absent

\* args.find(arg => list.includes(arg)), undefined when none is found
ArgsFind(args, list) ==
  IF \E i \in DOMAIN args : args[i] \in list
  THEN args[CHOOSE i \in DOMAIN args :
              args[i] \in list /\ \A j \in 1..(i - 1) : args[j] \notin list]
  ELSE Absent

\* a || b on strings: undefined and '' are falsy
OrElse(a, b) == IF a = Absent \/ a = "" THEN b ELSE a

NoEnv == [MCP_TRANSPORT |-> Absent, MINA_NETWORK |-> Absent, SSE_PORT |-> Absent,
          MCP_SERVER_MODE |-> Absent, PORT |-> Absent, LOG_LEVEL |-> Absent]

NoOptions == [transport |-> Absent, network |-> Absent, port |-> NoPort,
              host |-> Absent, logLevel |-> Absent, help |-> FALSE]

\* main() of part_002: the options handed to ZKPRETMCPServerBootstrap
AutoMain_options(args, env, isTTY) ==
  LET transportArg == ArgsFind(args, {"stdio", "sse"})
      networkArg == ArgsFind(args, {"local", "devnet", "testnet", "mainnet"})
  IN  [NoOptions EXCEPT
         !.transport = IF transportArg # Absent THEN transportArg
                       ELSE IF OrElse(env.MCP_TRANSPORT, Absent) # Absent THEN env.MCP_TRANSPORT
                       ELSE IF isTTY THEN "stdio" ELSE "sse",
         !.network = OrElse(networkArg, OrElse(env.MINA_NETWORK, "local")),
         !.port = ParseInt(OrElse(env.SSE_PORT, "3001")),
         !.host = "localhost"]

\* parseArgs() of part_002 (370-441): the loop over the arguments
RECURSIVE ServerMain_loop(_, _, _)
ServerMain_loop(args, i, config) ==
  IF i > Len(args) \/ config.help THEN config
  ELSE LET next == ArgAt(args, i + 1)
       IN  CASE args[i] = "--mode" ->
                  ServerMain_loop(args, i + 2,
                    IF next \in {"stdio", "sse"}
                    THEN [config EXCEPT !.transport = next] ELSE config)
             [] args[i] = "--port" ->
                  ServerMain_loop(args, i + 2, [config EXCEPT !.port = ParseIntOr(next, 3000)])
             [] args[i] = "--host" ->
                  ServerMain_loop(args, i + 2, [config EXCEPT !.host = OrElse(next, "localhost")])
             [] args[i] = "--log-level" ->
                  ServerMain_loop(args, i + 2,
                    IF next \in LogLevels THEN [config EXCEPT !.logLevel = next] ELSE config)
             [] args[i] = "--help" -> [config EXCEPT !.help = TRUE]
             [] OTHER -> ServerMain_loop(args, i + 1, config)

\* parseArgs() of part_002 (370-441): defaults, the loop, then the
\* environment variable overrides
ServerMain_parseArgs(args, env) ==
  LET defaults == [NoOptions EXCEPT !.transport = "stdio", !.port = 3000,
                                    !.host = "localhost", !.logLevel = "info"]
      cli == ServerMain_loop(args, 1, defaults)
      mode == IF OrElse(env.MCP_SERVER_MODE, Absent) \in {"stdio", "sse"}
              THEN env.MCP_SERVER_MODE ELSE cli.transport
      port == IF OrElse(env.PORT, Absent) # Absent
              THEN ParseIntOr(env.PORT, cli.port) ELSE cli.port
      level == IF OrElse(env.LOG_LEVEL, Absent) \in LogLevels
               THEN env.LOG_LEVEL ELSE cli.logLevel
  IN  IF cli.help THEN cli
      ELSE [cli EXCEPT !.transport = mode, !.port = port, !.logLevel = level]

\* parseArgs() of part_001: the loop over the arguments
RECURSIVE IndexMain_loop(_, _, _)
IndexMain_loop(args, i, options) ==
  IF i > Len(args) THEN options
  ELSE LET next == ArgAt(args, i + 1)
       IN  CASE args[i] = "--transport" ->
                  IndexMain_loop(args, i + 2,
                    IF next \in {"stdio", "sse"}
                    THEN [options EXCEPT !.transport = next] ELSE options)
             [] args[i] = "--port" ->
                  IndexMain_loop(args, i + 2, [options EXCEPT !.port = ParseInt(next)])
             [] args[i] = "--network" ->
                  IndexMain_loop(args, i + 2,
                    IF next \in {"mainnet", "testnet"}
                    THEN [options EXCEPT !.network = next] ELSE options)
             [] OTHER -> IndexMain_loop(args, i + 1, options)

IndexMain_parseArgs(args) ==
  IndexMain_loop(args, 1, [NoOptions EXCEPT !.transport = "stdio", !.network = "testnet"])

\* main() of part_000: transportArg || MCP_TRANSPORT || 'stdio'; anything
\* but 'sse' then takes the stdio branch
LegacyMain_options(args, env) ==
  LET transportArg == ArgsFind(args, {"stdio", "sse"})
      transport == OrElse(transportArg, OrElse(env.MCP_TRANSPORT, "stdio"))
  IN  [NoOptions EXCEPT
         !.transport = IF transport = "sse" THEN "sse" ELSE "stdio",
         !.port = IF transport = "sse" THEN ParseInt(OrElse(env.SSE_PORT, "3001")) ELSE NoPort]

\* Launch_new: the process before its entry point has run.
Launch_new(entry, args, env, isTTY) ==
  [entry |-> entry, args |-> args, env |-> env, isTTY |-> isTTY, pc |-> "fresh",
   options |-> NoOptions, exitCode |-> -1, startFailed |-> FALSE]

\* main() of part_002 up to the first await of start(): the options are
\* chosen and MinaNetworkConfig.getConfig(options.network) is looked up; a
\* throw there ends in process.exit(1)
AutoMain ==
  /\ program = "launch"
  /\ launch.entry = "autoMain" /\ launch.pc = "fresh"
  /\ LET options == AutoMain_options(launch.args, launch.env, launch.isTTY)
     IN  launch' = IF MinaNetworkConfig_getConfig(options.network).threw
                   THEN [launch EXCEPT !.options = options, !.pc = "exited", !.exitCode = 1]
                   ELSE [launch EXCEPT !.options = options, !.pc = "starting"]
  /\ UNCHANGED <<indexVars, wmVars, regVars, srvVars, bootVars, sseVars, appVars, program>>

\* The rest of start(): the wallet manager and the server initialize, then
\* setupTransport() switches on options.transport and throws for a value
\* that is neither 'stdio' nor 'sse'
AutoStartSettled(initialized) ==
  /\ program = "launch"
  /\ launch.entry = "autoMain" /\ launch.pc = "starting"
  /\ launch' = IF ~initialized
                THEN [launch EXCEPT !.pc = "exited", !.exitCode = 1, !.startFailed = TRUE]
                ELSE IF launch.options.transport \notin {"stdio", "sse"}
                THEN [launch EXCEPT !.pc = "exited", !.exitCode = 1]
                ELSE [launch EXCEPT !.pc = "serving"]
  /\ UNCHANGED <<indexVars, wmVars, regVars, srvVars, bootVars, sseVars, appVars, program>>

\* parseArgs() and main() of part_002 (370-462): --help exits with 0
ServerMain ==
  /\ program = "launch"
  /\ launch.entry = "serverMain" /\ launch.pc = "fresh"
  /\ LET config == ServerMain_parseArgs(launch.args, launch.env)
     IN  launch' = IF config.help
                   THEN [launch EXCEPT !.options = config, !.pc = "exited", !.exitCode = 0]
                   ELSE [launch EXCEPT !.options = config, !.pc = "serving"]
  /\ UNCHANGED <<indexVars, wmVars, regVars, srvVars, bootVars, sseVars, appVars, program>>

\* parseArgs() of part_001
IndexMain ==
  /\ program = "launch"
  /\ launch.entry = "indexMain" /\ launch.pc = "fresh"
  /\ launch' = [launch EXCEPT !.options = IndexMain_parseArgs(launch.args), !.pc = "serving"]
  /\ UNCHANGED <<indexVars, wmVars, regVars, srvVars, bootVars, sseVars, appVars, program>>

\* main() of part_000
LegacyMain ==
  /\ program = "launch"
  /\ launch.entry = "legacyMain" /\ launch.pc = "fresh"
  /\ launch' = [launch EXCEPT !.options = LegacyMain_options(launch.args, launch.env),
                              !.pc = "serving"]
  /\ UNCHANGED <<indexVars, wmVars, regVars, srvVars, bootVars, sseVars, appVars, program>>

(***************************************************************************)
(* The configuration singleton: services/config/app-config.ts              *)
(***************************************************************************)
\* The sections of AppConfigType that carry the secrets; `services` holds
\* its gleif object. A section that is undefined has defined = FALSE.
ConfigSections == {"mina", "services", "security", "database"}

NoSection == [mina |-> [defined |-> FALSE, network |-> Absent, privateKey |-> Absent],
              services |-> [defined |-> FALSE, gleif |-> [apiKey |-> Absent]],
              security |-> [defined |-> FALSE, jwtSecret |-> Absent],
              database |-> [defined |-> FALSE, password |-> Absent, url |-> Absent]]

NoAppEnv == [MINA_NETWORK |-> Absent, MINA_PRIVATE_KEY |-> Absent, GLEIF_API_KEY |-> Absent,
             JWT_SECRET |-> Absent, DB_TYPE |-> Absent, DB_PASSWORD |-> Absent,
             DATABASE_URL |-> Absent]

\* AppConfigSchema.parse(c) succeeds: mina, services and security are
\* required objects, database is optional, mina.network is one of the enum
AppConfigSchema_accepts(c) ==
  /\ c.mina.defined
  /\ c.mina.network \in NetworkTypes \cup {Absent}
  /\ c.services.defined
  /\ c.security.defined

\* AppConfigSchema.parse(c) on an accepted c: fresh objects with the
\* defaults filled in
AppConfigSchema_parse(c) ==
  [mina |-> [c.mina EXCEPT !.network = IF @ = Absent THEN "local" ELSE @],
   services |-> c.services,
   security |-> c.security,
   database |-> IF c.database.defined
                THEN [c.database EXCEPT !.password = IF @ = Absent THEN "" ELSE @]
                ELSE NoSection.database]

\* loadConfig(): the object read from the environment, validated
loadConfig(env) ==
  AppConfigSchema_parse(
    [mina |-> [defined |-> TRUE, network |-> env.MINA_NETWORK,
               privateKey |-> env.MINA_PRIVATE_KEY],
     services |-> [defined |-> TRUE, gleif |-> [apiKey |-> env.GLEIF_API_KEY]],
     security |-> [defined |-> TRUE, jwtSecret |-> env.JWT_SECRET],
     database |-> IF env.DB_TYPE # Absent
                  THEN [defined |-> TRUE, password |-> env.DB_PASSWORD,
                        url |-> env.DATABASE_URL]
                  ELSE NoSection.database])

\* { ...config, ...updates }: the keys of updates replace whole sections
Spread(config, updates) ==
  [k \in DOMAIN config |-> IF k \in DOMAIN updates THEN updates[k] ELSE config[k]]

\* `shares` names the sections of the returned object that are the very
\* objects of the live configuration: their content is read from appConfig.
NoConfigOut == [op |-> "none", threw |-> FALSE, shares |-> {}]

\* delete applied to the secret properties of the section objects
DeleteSecrets(config) ==
  [config EXCEPT
     !.mina = IF @.defined THEN [@ EXCEPT !.privateKey = Absent] ELSE @,
     !.services = IF @.defined THEN [@ EXCEPT !.gleif = [@ EXCEPT !.apiKey = Absent]] ELSE @,
     !.security = IF @.defined THEN [@ EXCEPT !.jwtSecret = Absent] ELSE @,
     !.database = IF @.defined THEN [@ EXCEPT !.password = Absent, !.url = Absent] ELSE @]

\* getConfig(): a new top-level object whose properties are the live
\* section objects
GetConfig ==
  /\ program = "appConfig"
  /\ configOut' = [op |-> "getConfig", threw |-> FALSE, shares |-> ConfigSections]
  /\ UNCHANGED <<appConfig, indexVars, wmVars, regVars, srvVars, bootVars, sseVars, launch, program>>

\* getSanitizedConfig(): the same one-level copy, then delete on the section
\* objects it refers to, which are those of this.config
GetSanitizedConfig ==
  /\ program = "appConfig"
  /\ appConfig' = DeleteSecrets(appConfig)
  /\ configOut' = [op |-> "getSanitizedConfig", threw |-> FALSE, shares |-> ConfigSections]
  /\ UNCHANGED <<indexVars, wmVars, regVars, srvVars, bootVars, sseVars, launch, program>>

\* updateConfig(updates): merge one level deep, validate, then assign; a
\* rejected merge throws before the assignment
UpdateConfig(updates) ==
  /\ program = "appConfig"
  /\ LET newConfig == Spread(appConfig, updates)
     IN  IF AppConfigSchema_accepts(newConfig)
         THEN /\ appConfig' = AppConfigSchema_parse(newConfig)
              /\ configOut' = [op |-> "updateConfig", threw |-> FALSE, shares |-> {}]
         ELSE /\ appConfig' = appConfig
              /\ configOut' = [op |-> "updateConfig", threw |-> TRUE, shares |-> {}]
  /\ UNCHANGED <<indexVars, wmVars, regVars, srvVars, bootVars, sseVars, launch, program>>

(***************************************************************************)
(* Specifications                                                          *)
(***************************************************************************)
\* No entry point is under consideration.
NoLaunch == Launch_new("none", <<>>, NoEnv, TRUE)

\* The configuration singleton as loaded from an empty environment.
ConfigIdle == appConfig = loadConfig(NoAppEnv) /\ configOut = NoConfigOut

InitCommon ==
  /\ mockWallet = MockWallet_new
  /\ mockOut = [op |-> "none", arg |-> NoNetwork, threw |-> FALSE, before |-> NoNetwork]
  /\ toolResp = NoResp
  /\ switchedTo = NoNetwork
  /\ wallet = Wallet_new
  /\ minaInstance = "none"
  /\ walletOut = NoWalletOut
  /\ walletCalls = [c \in Calls |-> IdleCall]
  /\ registry = ToolRegistry_new
  /\ registry7 = <<>>
  /\ regOut = NoRegOut
  /\ toolRegistry = ToolRegistry_new
  /\ isInitialized = FALSE
  /\ mcpHandlers = FALSE
  /\ calls = [c \in CallSlots |-> IdleSlot]
  /\ shutdowns = <<>>
  /\ transports = <<>>
  /\ conns = [s \in SessionIds |-> NoConn]
  /\ sseResp = NoSseResp

\* The server of part_005 with its registry and handler groups.
Init == InitCommon /\ lifecycle = Lifecycle_new(HandlerGroups) /\ launch = NoLaunch /\ ConfigIdle /\ program = "server"

Next ==
  \/ \E servicesOk \in BOOLEAN : ServerInitialize(servicesOk)
  \/ \E c \in CallSlots, toolName \in CallNameInputs, args \in ArgInputs :
       HandleToolCall(c, toolName, args)
  \/ \E c \in CallSlots, settled \in {"resolves", "rejects", "throws"}, message \in ErrorMessages :
       ContractHandlerSettle(c, settled, message)
  \/ \E c \in CallSlots, settled \in {"resolves", "rejects", "throws"}, message \in ErrorMessages :
       OtherHandlerSettle(c, settled, message)
  \/ \E c \in CallSlots : CallReply(c)
  \/ ServerCleanup

Spec == Init /\ [][Next]_vars

\* The two ToolRegistry classes, each driven through its public methods.
InitRegistry == InitCommon /\ lifecycle = Lifecycle_new(HandlerGroups) /\ launch = NoLaunch /\ ConfigIdle /\ program \in {"registry", "registry7"}

NextRegistry ==
  \/ \E e \in EntryInputs : RegisterTool(e.tool, e.handler)
  \/ \E batch \in BatchInputs : RegisterTools(batch)
  \/ \E name \in ToolNameInputs : RemoveTool(name)
  \/ Clear
  \/ \E e \in EntryInputs : Register7(e)
  \/ \E name \in ToolNameInputs : Unregister7(name)
  \/ \E name \in ToolNameInputs, handlerOutcome \in {"returns", "throws"} :
       Execute7(name, handlerOutcome)
  \/ Clear7

SpecRegistry == InitRegistry /\ [][NextRegistry]_vars

\* The wallet managers: the index.ts tool handlers over the part_004
\* WalletManager, and the shared WalletManager of wallet-manager.ts.
InitWallet ==
  /\ InitCommon
  /\ lifecycle = Lifecycle_new(HandlerGroups)
  /\ launch = NoLaunch /\ ConfigIdle
  /\ program \in {"index", "indexO1js", "walletManager"}

NextWallet ==
  \/ \E network \in NetworkInputs : program = "index" /\ MockSwitchNetwork(network)
  \/ \E network \in NetworkInputs : program = "index" /\ NetworkSwitchTool(network)
  \/ program = "index" /\ NetworkGetCurrentTool
  \/ \E network \in NetworkInputs \cup {""} : program = "index" /\ WalletGetInfoTool(network)
  \/ \E envKey \in BOOLEAN, envNetwork \in NetworkInputs \cup {""} :
       program = "walletManager" /\ WalletInitialize(envKey, envNetwork)
  \/ \E network \in NetworkInputs : program = "walletManager" /\ WalletSwitchNetwork(network)
  \/ \E c \in Calls, walletType \in WalletTypes :
       program = "walletManager" /\ GetWalletInfoStart(c, walletType)
  \/ \E c \in Calls, settled \in {"resolves", "rejects"} :
       program = "walletManager" /\ GetWalletInfoAccounts(c, settled)
  \/ \E c \in Calls : program = "walletManager" /\ GetWalletInfoReturn(c)
  \/ \E walletType \in WalletTypes, settled \in {"resolves", "rejects"} :
       program = "walletManager" /\ WalletSignTransaction(walletType, settled)
  \/ program = "walletManager" /\ WalletCleanup
  \/ \E network \in NetworkInputs : program = "indexO1js" /\ NetworkSwitchToolO1js(network)
  \/ program = "indexO1js" /\ NetworkGetCurrentToolO1js
  \/ \E network \in NetworkInputs \cup {""} :
       program = "indexO1js" /\ WalletGetInfoToolO1js(network)

SpecWallet == InitWallet /\ [][NextWallet]_vars

\* The process of part_002 over stdio, from start() to process.exit.
BootCallNameInputs == {<<"contract", "deploy">>, <<"compliance", "verify">>, <<"unknown", "tool", "xyz">>}

BootArgInputs == {Args(Absent, Absent, Absent, Absent), Args("compliance", "local", Absent, Absent)}

InitBootstrap ==
  /\ InitCommon
  /\ lifecycle \in {[Lifecycle_new(groups) EXCEPT !.kind = kind] :
                      groups \in GroupInputs, kind \in TransportTypes}
  /\ launch = NoLaunch /\ ConfigIdle
  /\ program = "bootstrap"

NextBootstrap ==
  \/ \E ok \in BOOLEAN, envKey \in BOOLEAN, envNetwork \in {"", "devnet"} :
       StartWalletInitialize(ok, envKey, envNetwork)
  \/ \E servicesOk \in BOOLEAN : StartServerInitialize(servicesOk)
  \/ \E connected \in BOOLEAN : StartSetupTransport(connected)
  \/ \E c \in CallSlots, toolName \in BootCallNameInputs, args \in BootArgInputs :
       HandleToolCall(c, toolName, args)
  \/ \E c \in CallSlots, settled \in {"resolves", "rejects", "throws"}, message \in ErrorMessages :
       ContractHandlerSettle(c, settled, message)
  \/ \E c \in CallSlots, settled \in {"resolves", "rejects", "throws"}, message \in ErrorMessages :
       OtherHandlerSettle(c, settled, message)
  \/ \E c \in CallSlots : CallReply(c)
  \/ \E signal \in ShutdownSignals : ShutdownSignal(signal)
  \/ HttpCloseEmitted
  \/ \E i \in 1..MaxShutdowns : ShutdownCleanupSettled(i)
  \/ \E i \in 1..MaxShutdowns, closed \in BOOLEAN : ShutdownCloseSettled(i, closed)

SpecBootstrap == InitBootstrap /\ [][NextBootstrap]_vars

\* The two SSE adapters, driven by clients that connect, post and leave.
InitSse ==
  /\ InitCommon
  /\ lifecycle = Lifecycle_new(HandlerGroups)
  /\ launch = NoLaunch /\ ConfigIdle
  /\ program \in SsePrograms

NextSse ==
  \/ \E sessionId \in SessionIds : GetSse(sessionId)
  \/ \E sessionId \in SessionIds, connected \in BOOLEAN : SseConnectSettled(sessionId, connected)
  \/ \E sessionId \in SessionIds : ClientClose(sessionId)
  \/ \E sessionId \in SessionIds : ReqError(sessionId)
  \/ \E sessionId \in SessionIds, writableEnded \in BOOLEAN : KeepAliveTick(sessionId, writableEnded)
  \/ \E sessionId \in SessionIdInputs, id \in RequestIdInputs : PostMessages(sessionId, id)

SpecSse == InitSse /\ [][NextSse]_vars

\* The entry points, each run once on a command line and an environment.
\* A command line is empty, one option, or two options in either order.
ArgOptionInputs ==
  { <<"sse">>, <<"http">>, <<"devnet">>, <<"moon">>,
    <<"--mode", "sse">>, <<"--mode", "http">>,
    <<"--transport", "sse">>, <<"--transport", "http">>,
    <<"--network", "mainnet">>, <<"--network", "moon">>,
    <<"--port", "8080">>, <<"--port", "abc">>,
    <<"--log-level", "debug">>, <<"--log-level", "verbose">>,
    <<"--host", "example.org">>, <<"--help">> }

ArgvInputs == {<<>>} \cup ArgOptionInputs \cup {a \o b : a, b \in ArgOptionInputs}

\* The environment variables each entry point reads, unset, recognized or
\* unrecognized.
EnvInputs(entry) ==
  CASE entry = "autoMain" ->
         {[NoEnv EXCEPT !.MCP_TRANSPORT = t, !.MINA_NETWORK = n] :
            t \in {Absent, "stdio", "http"}, n \in {Absent, "testnet", "moon"}}
    [] entry = "serverMain" ->
         {[NoEnv EXCEPT !.MCP_SERVER_MODE = m, !.PORT = q, !.LOG_LEVEL = l] :
            m \in {Absent, "stdio", "http"}, q \in {Absent, "9090", "abc"},
            l \in {Absent, "warn", "verbose"}}
    [] entry = "legacyMain" ->
         {[NoEnv EXCEPT !.MCP_TRANSPORT = t] : t \in {Absent, "stdio", "sse", "http"}}
    [] OTHER -> {NoEnv}

InitLaunch ==
  /\ InitCommon
  /\ lifecycle = Lifecycle_new(HandlerGroups)
  /\ \E entry \in EntryPoints :
       launch \in {Launch_new(entry, args, env, isTTY) :
                     args \in ArgvInputs, env \in EnvInputs(entry), isTTY \in BOOLEAN}
  /\ ConfigIdle
  /\ program = "launch"

NextLaunch ==
  \/ AutoMain
  \/ \E initialized \in BOOLEAN : AutoStartSettled(initialized)
  \/ ServerMain
  \/ IndexMain
  \/ LegacyMain

SpecLaunch == InitLaunch /\ [][NextLaunch]_vars

\* The AppConfig singleton, constructed under some environment.
AppEnvInputs ==
  [MINA_NETWORK : {Absent, "mainnet"}, MINA_PRIVATE_KEY : {Absent, "EKE-key"},
   GLEIF_API_KEY : {Absent, "gleif-key"}, JWT_SECRET : {Absent, "jwt-secret"},
   DB_TYPE : {Absent, "postgres"}, DB_PASSWORD : {Absent, "db-password"},
   DATABASE_URL : {Absent, "postgres://db"}]

UpdateInputs ==
  {[mina |-> m] : m \in [defined : BOOLEAN, network : {Absent, "devnet", "moon"},
                          privateKey : {Absent, "EKF-key"}]}
  \cup {[security |-> [defined |-> TRUE, jwtSecret |-> "jwt-2"]]}
  \cup {[database |-> d] : d \in [defined : BOOLEAN, password : {Absent}, url : {Absent, "postgres://db2"}]}

InitConfig ==
  /\ InitCommon
  /\ lifecycle = Lifecycle_new(HandlerGroups)
  /\ launch = NoLaunch
  /\ appConfig \in {loadConfig(env) : env \in AppEnvInputs}
  /\ configOut = NoConfigOut
  /\ program = "appConfig"

NextConfig ==
  \/ GetConfig
  \/ GetSanitizedConfig
  \/ \E updates \in UpdateInputs : UpdateConfig(updates)

SpecConfig == InitConfig /\ [][NextConfig]_vars

(***************************************************************************)
(* Properties                                                              *)
(***************************************************************************)
\* The three response classes of the dispatcher contract, read off a
\* response: a rejected request is a protocol failure, a returned result
\* flagged isError is a domain failure, any other returned result a success.
ResponseClass(resp) ==
  IF resp.kind = "error" THEN "protocolFailure"
  ELSE IF resp.isError THEN "domainFailure"
  ELSE "success"

\* What happened to a finished call: no handler was found, its arguments
\* were refused, its handler threw (protocol failures), its handler
\* reported that the operation failed (domain failure), or it succeeded.
OutcomeClass(call) ==
  CASE call.handler = "none"     -> "protocolFailure"
    [] call.settled = "zodError" -> "protocolFailure"
    [] call.settled = "throws"   -> "protocolFailure"
    [] call.settled = "rejects"  -> "domainFailure"
    [] OTHER                     -> "success"

\* Everything in a response a client can branch on without reading the
\* free-form error message.
Discriminator(resp) == <<resp.kind, resp.isError, resp.text>>

\* The name is in no handler group and not in the server's registry.
Unregistered(toolName) == RouteToGroup(toolName) = 0 /\ ~hasTool(toolRegistry, toolName)

\* C1: dispatching a tool name that is not registered, with any arguments,
\* yields a protocol-level failure (not a result) naming the unknown tool,
\* and leaves the registry and the wallet/network context as they were.
C1_UnknownToolIsProtocolFailure ==
  [][\A c \in CallSlots, toolName \in CallNameInputs, args \in ArgInputs :
       (HandleToolCall(c, toolName, args) /\ Unregistered(toolName))
         => /\ calls'[c].pc = "done"
            /\ ResponseClass(calls'[c].resp) = "protocolFailure"
            /\ calls'[c].resp.message = UnknownToolMessage
            /\ calls'[c].handler = "none"
            /\ toolRegistry' = toolRegistry
            /\ <<wallet, minaInstance>>' = <<wallet, minaInstance>>]_vars

\* C2: a call to a tool that is in the registry never ends as an unknown
\* tool, and when its arguments match the declared input shape and its
\* handler succeeds the response is a result without the error flag.
C2_RegisteredToolSucceeds ==
  \A c \in CallSlots :
    (calls[c].pc = "done" /\ hasTool(toolRegistry, calls[c].toolName))
      => /\ calls[c].resp.message # UnknownToolMessage
         /\ calls[c].handler # "none"
         /\ (calls[c].validArgs /\ calls[c].settled = "resolves")
              => (calls[c].resp.kind = "result" /\ ~calls[c].resp.isError)

C2_Witness ==
  \E c \in CallSlots :
    /\ calls[c].pc = "done"
    /\ calls[c].toolName = <<"contract", "load", "existing">>
    /\ hasTool(toolRegistry, calls[c].toolName)
    /\ calls[c].validArgs
    /\ calls[c].settled = "resolves"
    /\ ~calls[c].resp.isError

\* C3: success, domain failure and protocol failure are told apart by the
\* response: two finished calls of different classes never carry responses
\* that agree in everything but the free-form message.
C3_ThreeClassesDistinguishable ==
  \A c, d \in CallSlots :
    (calls[c].pc = "done" /\ calls[d].pc = "done"
       /\ OutcomeClass(calls[c]) # OutcomeClass(calls[d]))
      => Discriminator(calls[c].resp) # Discriminator(calls[d].resp)

\* C4: a handler is entered only for a tool that was found and with
\* arguments that satisfy the tool's declared input shape.
C4_NoHandlerBeforeValidation ==
  \A c \in CallSlots :
    calls[c].handler # "none"
      => (RouteToGroup(calls[c].toolName) # 0 /\ calls[c].validArgs)

\* The registry holds this entry (definition and handler) under its name.
EntryPresent(r, e) ==
  /\ hasTool(r, e.tool.name)
  /\ getTool(r, e.tool.name).tool = e.tool
  /\ getTool(r, e.tool.name).handler = e.handler

\* C5: registering a name that is already registered fails and changes
\* nothing: the name stays bound to the definition and handler of the
\* first registration, in both registry classes.
C5_DuplicateRegistrationRejected ==
  [][\A e \in EntryInputs :
       /\ (RegisterTool(e.tool, e.handler) /\ hasTool(registry, e.tool.name))
            => /\ regOut'.threw
               /\ getTool(registry', e.tool.name) = getTool(registry, e.tool.name)
               /\ registry'.categories = registry.categories
       /\ (Register7(e) /\ ToolRegistry7_has(registry7, e.tool.name))
            => /\ regOut'.threw
               /\ registry7' = registry7]_vars

\* Entry i of the batch is invalid by the registry's own validateTool, or
\* repeats the name of an earlier entry of the batch.
BatchEntryInvalid(r, batch, i) ==
  \/ ~validateTool(r, batch[i].tool)
  \/ \E j \in 1..(i - 1) : batch[j].tool.name = batch[i].tool.name

\* C6: a batch with an invalid or duplicate entry is rejected as a whole:
\* none of its entries is added by the registerTools call.
C6_BatchRegistrationAtomic ==
  [][\A batch \in BatchInputs :
       (RegisterTools(batch) /\ \E i \in DOMAIN batch : BatchEntryInvalid(registry, batch, i))
         => \A i \in DOMAIN batch :
              EntryPresent(registry', batch[i]) => EntryPresent(registry, batch[i])]_vars

\* C7: switchNetwork with a value outside the enumeration throws and leaves
\* the current network as it was, so the current network is always one of
\* local, devnet, testnet, mainnet (WalletManager over NetworkConfig).
C7_UnknownNetworkRejected ==
  /\ (mockOut.op = "switchNetwork" /\ mockOut.arg \notin NetworkTypes)
       => (mockOut.threw /\ mockWallet.currentNetwork = mockOut.before)
  /\ mockWallet.currentNetwork \in NetworkTypes

\* C8: after switchNetwork(X) returns for a network X of the enumeration,
\* the current network reads X and the current configuration is X's, in
\* both wallet managers.
C8_SwitchRoundTrip ==
  /\ (mockOut.op = "switchNetwork" /\ ~mockOut.threw /\ mockOut.arg \in NetworkTypes)
       => /\ MockWallet_getCurrentNetwork(mockWallet) = mockOut.arg
          /\ MockWallet_getNetworkConfig(mockWallet) = NetworkConfig_configs[mockOut.arg]
  /\ (walletOut.op = "switchNetwork" /\ ~walletOut.threw /\ walletOut.arg \in NetworkTypes)
       => /\ Wallet_getCurrentNetwork(wallet) = walletOut.arg
          /\ minaInstance = MinaNetworkConfig_configs[walletOut.arg].endpoint

C8_Witness ==
  /\ mockOut.op = "switchNetwork"
  /\ ~mockOut.threw
  /\ mockOut.arg = "mainnet"
  /\ mockOut.before = "devnet"
  /\ mockWallet.currentNetwork = "mainnet"

\* C9: once a network_switch call naming X has returned, a later
\* network_get_current call reports X.
C9_SwitchVisibleToLaterCalls ==
  (toolResp.tool = "network_get_current" /\ switchedTo \in NetworkTypes)
    => toolResp.network = switchedTo

\* C10: the WalletInfo returned by getWalletInfo names the network that was
\* current when the call was made, whatever switchNetwork calls completed
\* while it was suspended.
C10_SnapshotIsolation ==
  (walletOut.op = "getWalletInfo" /\ ~walletOut.threw)
    => walletOut.network = walletOut.dispatched

\* C11: whenever the wallet manager holds private-key material and the
\* current network is one of the enumeration, that network is the one the
\* key was loaded on, and a transaction signed with the private key is
\* signed on that network: a successful switchNetwork to another network
\* leaves no key attached.
C11_WalletClearedOnSwitch ==
  /\ (wallet.privateKey /\ wallet.currentNetwork \in NetworkTypes)
       => wallet.currentNetwork = wallet.keyNetwork
  /\ (walletOut.op = "signTransaction" /\ ~walletOut.threw /\ walletOut.arg = "private_key"
        /\ walletOut.network \in NetworkTypes)
       => walletOut.network = walletOut.dispatched

\* C12: the process-wide network (the shared wallet manager's current
\* network and the active Mina instance) changes only in a step that is an
\* explicit switch request, or the switch initialize() makes at bootstrap:
\* no other tool, wallet query tools with a network argument included,
\* moves it to another network of the enumeration.
C12_NetworkChangesOnlyBySwitch ==
  [][/\ (\/ wallet'.currentNetwork # wallet.currentNetwork
         \/ /\ minaInstance' # minaInstance
            /\ \E n \in NetworkTypes : minaInstance' = MinaNetworkConfig_configs[n].endpoint)
          => \/ \E network \in NetworkInputs : WalletSwitchNetwork(network)
             \/ \E network \in NetworkInputs : NetworkSwitchToolO1js(network)
             \/ \E envKey \in BOOLEAN, envNetwork \in NetworkInputs \cup {""} :
                  WalletInitialize(envKey, envNetwork)
     /\ mockWallet'.currentNetwork # mockWallet.currentNetwork
          => \E network \in NetworkInputs : MockSwitchNetwork(network)]_vars

\* C13: when a fault is thrown while a handler runs, the caller receives a
\* protocol-level failure whose message is redacted: the response does not
\* carry the message of the fault that was raised.
C13_InternalFaultRedacted ==
  \A c \in CallSlots :
    (calls[c].pc = "done" /\ calls[c].settled = "throws")
      => /\ ResponseClass(calls[c].resp) = "protocolFailure"
         /\ calls[c].resp.message \notin ErrorMessages

\* A response the MCP server can frame: a CallToolResult with a text item
\* and an isError flag, or an error with a message.
WellFormedEnvelope(resp) ==
  \/ resp.kind = "result" /\ resp.isError \in BOOLEAN /\ resp.text # "none"
  \/ resp.kind = "error" /\ resp.message # "none"

\* C14: whatever the handler of a dispatched call does (return, report a
\* failure, throw, reject), the call ends with a well-formed envelope for
\* its caller, and no step of a tool call makes the process exit, start a
\* shutdown or drop its transport.
C14_PerCallErrorIsolation ==
  [][\A c \in CallSlots :
       calls'[c] # calls[c]
         => /\ calls'[c].pc = "done" => WellFormedEnvelope(calls'[c].resp)
            /\ lifecycle'.exitCode = lifecycle.exitCode
            /\ lifecycle'.transport = lifecycle.transport
            /\ shutdowns' = shutdowns]_vars

C14_Witness ==
  /\ program = "bootstrap"
  /\ ProcessAlive /\ lifecycle.transport = "connected" /\ shutdowns = <<>>
  /\ \E c, d \in CallSlots :
       /\ calls[c].pc = "done" /\ calls[c].settled = "throws"
       /\ calls[d].pc = "done" /\ calls[d].settled = "rejects"
       /\ calls[d].handler = "handleDeployContract"

\* The session id was never handed out by GET /sse.
NeverIssued(sessionId) == sessionId \notin SessionIds \/ conns[sessionId].pc = "free"

\* The event stream of the session has been closed by its client.
StreamClosed(sessionId) == sessionId \in SessionIds /\ conns[sessionId].stream = "closed"

\* C15: a message posted under a session id that was never issued, or
\* whose stream has already closed, is answered with the invalid-session
\* failure and is not handed on to the server behind the adapter.
C15_UnknownSessionRejected ==
  [][\A sessionId \in SessionIdInputs, id \in RequestIdInputs :
       (PostMessages(sessionId, id) /\ (NeverIssued(sessionId) \/ StreamClosed(sessionId)))
         => /\ sseResp'.status = 400
            /\ sseResp'.code = -32000
            /\ ~sseResp'.forwarded]_vars

\* C16: the reply to a message accepted on an issued session carries
\* exactly the request id the caller supplied, whatever that id is.
C16_RequestIdEchoed ==
  (sseResp.status = 200 /\ sseResp.sessionId \in SessionIds /\ sseResp.requestId # Absent)
    => sseResp.id = sseResp.requestId

\* C17: a message accepted on an issued session is forwarded to the server
\* behind the adapter, and the reply framed back is that server's response
\* to it.
C17_AcceptedRequestForwarded ==
  (sseResp.status = 200 /\ sseResp.sessionId \in SessionIds)
    => sseResp.forwarded /\ sseResp.body = "response"

\* C18: once shutdown has begun, the process does not exit while a call
\* that was in flight at that moment has not yet sent its response.
C18_ShutdownDrains ==
  (program = "bootstrap" /\ ~ProcessAlive) => lifecycle.drain = {}

\* The process serves requests: its transport is connected and no shutdown
\* has begun.
Serving ==
  program = "bootstrap" /\ ProcessAlive /\ lifecycle.transport = "connected" /\ shutdowns = <<>>

\* The definition passes the checks of the catalog contract: a name, a
\* description and an object input schema.
WellDefined(tool) ==
  /\ tool.name # <<"">>
  /\ tool.description # ""
  /\ tool.inputSchema.jsType = "object"

\* C19: the server serves only after registration has completed, and then
\* the catalog holds every definition the handler groups supplied, each
\* well defined and under its own name: a duplicate name or an invalid
\* definition among them would have ended the process before serving.
C19_ServesOnlyCompleteCatalog ==
  Serving
    => /\ isInitialized
       /\ \A g \in DOMAIN ActiveGroups : \A i \in DOMAIN ActiveGroups[g] :
            /\ EntryPresent(toolRegistry, ActiveGroups[g][i])
            /\ WellDefined(ActiveGroups[g][i].tool)

\* C20: registering a definition whose name is empty, whose description is
\* empty or whose input schema is not an object fails and adds nothing to
\* the catalog, in both registry classes.
C20_InvalidDefinitionRejected ==
  [][\A e \in EntryInputs :
       ~WellDefined(e.tool)
         => /\ RegisterTool(e.tool, e.handler)
                 => regOut'.threw /\ registry' = registry
            /\ Register7(e)
                 => regOut'.threw /\ registry7' = registry7]_vars

\* The entry point has run to the point where it serves or has exited.
Launched == program = "launch" /\ launch.pc \in {"serving", "exited"}

\* The transport value the environment supplies to the entry point.
EnvTransport ==
  IF launch.entry = "serverMain" THEN launch.env.MCP_SERVER_MODE ELSE launch.env.MCP_TRANSPORT

\* The defaults each entry point falls back to.
DefaultTransport ==
  IF launch.entry = "autoMain" THEN (IF launch.isTTY THEN "stdio" ELSE "sse") ELSE "stdio"

DefaultNetwork ==
  CASE launch.entry = "autoMain"  -> "local"
    [] launch.entry = "indexMain" -> "testnet"
    [] OTHER                      -> Absent

\* No recognized value of the selector appears on the command line or in
\* the environment.
NoTransportRecognized ==
  /\ \A i \in DOMAIN launch.args : launch.args[i] \notin TransportTypes
  /\ EnvTransport \notin TransportTypes

NoNetworkRecognized ==
  /\ \A i \in DOMAIN launch.args : launch.args[i] \notin NetworkTypes
  /\ launch.env.MINA_NETWORK \notin NetworkTypes

\* C21: whatever transport and network values the command line and the
\* environment carry, recognized or not, startup is not ended by them: the
\* process runs with a recognized transport and network, and with the
\* entry point's defaults when no recognized value was given.
C21_UnrecognizedSelectorFallsBack ==
  (Launched /\ ~launch.options.help /\ ~launch.startFailed)
    => /\ launch.exitCode = -1
       /\ launch.options.transport \in TransportTypes
       /\ launch.options.network \in NetworkTypes \cup {Absent}
       /\ NoTransportRecognized => launch.options.transport = DefaultTransport
       /\ NoNetworkRecognized => launch.options.network = DefaultNetwork

\* Port texts that parse to a usable port.
ValidPortTexts == {"8080", "9090"}

\* The value given with the last occurrence of the flag on the command
\* line whose value is among the valid ones; Absent when there is none.
CliValue(flag, valid) ==
  LET at == {i \in DOMAIN launch.args :
               launch.args[i] = flag /\ ArgAt(launch.args, i + 1) \in valid}
  IN  IF at = {} THEN Absent
      ELSE launch.args[(CHOOSE i \in at : \A j \in at : j <= i) + 1]

\* C22: when the command line and the environment both carry a valid value
\* of a setting (transport or mode, port, log level), the effective
\* configuration uses the value of the command line.
C22_CliOverridesEnvironment ==
  (Launched /\ ~launch.options.help)
    => /\ ( /\ launch.entry \in {"autoMain", "legacyMain"}
            /\ ArgsFind(launch.args, TransportTypes) # Absent
            /\ launch.env.MCP_TRANSPORT \in TransportTypes )
          => launch.options.transport = ArgsFind(launch.args, TransportTypes)
       /\ ( /\ launch.entry = "serverMain"
            /\ CliValue("--mode", TransportTypes) # Absent
            /\ launch.env.MCP_SERVER_MODE \in TransportTypes )
          => launch.options.transport = CliValue("--mode", TransportTypes)
       /\ ( /\ launch.entry = "serverMain"
            /\ CliValue("--port", ValidPortTexts) # Absent
            /\ launch.env.PORT \in ValidPortTexts )
          => launch.options.port = ParseInt(CliValue("--port", ValidPortTexts))
       /\ ( /\ launch.entry = "serverMain"
            /\ CliValue("--log-level", LogLevels) # Absent
            /\ launch.env.LOG_LEVEL \in LogLevels )
          => launch.options.logLevel = CliValue("--log-level", LogLevels)

\* The categories of the names tried on the registries.
CategoryInputs == {extractCategory(name) : name \in ToolNameInputs}

\* The sequence has no element twice.
NoRepeats(q) == \A i, j \in DOMAIN q : q[i] = q[j] => i = j

\* C23: after any sequence of registrations and removals the full listing
\* holds each registered definition once, in insertion order, and the
\* listing of a category is exactly the part of the full listing that
\* belongs to that category, in the same order.
C23_ListingsInInsertionOrder ==
  /\ program = "registry"
       => /\ NoRepeats(getAllTools(registry))
          /\ \A c \in CategoryInputs :
               getToolsByCategory(registry, c)
                 = SelectSeq(getAllTools(registry), LAMBDA t : extractCategory(t.name) = c)
  /\ program = "registry7"
       => /\ NoRepeats(ToolRegistry7_list(registry7))
          /\ \A c \in CategoryInputs :
               ToolRegistry7_listByCategory(registry7, c)
                 = SelectSeq(ToolRegistry7_list(registry7), LAMBDA t : extractCategory(t.name) = c)

\* The name is filed under some category of the registry.
InCategoryIndex(r, name) ==
  \E i \in DOMAIN r.categories : name \in SeqToSet(r.categories[i].value)

\* C24: removing a registered name reports true and leaves the name in
\* neither the name index nor the category index; removing an absent name
\* reports false and changes nothing.
C24_RemoveClearsBothIndexes ==
  [][\A name \in ToolNameInputs :
       /\ RemoveTool(name)
            => IF hasTool(registry, name)
               THEN /\ regOut'.returned
                    /\ ~hasTool(registry', name)
                    /\ ~InCategoryIndex(registry', name)
               ELSE ~regOut'.returned /\ registry' = registry
       /\ Unregister7(name)
            => IF ToolRegistry7_has(registry7, name)
               THEN regOut'.returned /\ ~ToolRegistry7_has(registry7', name)
               ELSE ~regOut'.returned /\ registry7' = registry7]_vars

\* Sum of the per-category counts reported by getStatistics.
StatisticsCountSum(r) ==
  LET RECURSIVE Sum(_)
      Sum(q) == IF q = <<>> THEN 0 ELSE Head(q).count + Sum(Tail(q))
  IN  Sum(getStatistics(r).categories)

\* C26: the category index agrees with the name index: every name filed
\* under a category is a registered tool of that category, every
\* registered tool is filed exactly once under its category, no category
\* is empty, and the category counts of getStatistics add up to totalTools.
C26_CategoryIndexConsistent ==
  program = "registry"
    => /\ \A i \in DOMAIN registry.categories :
            /\ registry.categories[i].value # <<>>
            /\ NoRepeats(registry.categories[i].value)
            /\ \A name \in SeqToSet(registry.categories[i].value) :
                 hasTool(registry, name) /\ extractCategory(name) = registry.categories[i].key
       /\ \A j \in DOMAIN registry.tools : InCategoryIndex(registry, registry.tools[j].key)
       /\ StatisticsCountSum(registry) = getStatistics(registry).totalTools

\* The tool names a tools/list request returns.
ListedNames == {getAllTools(toolRegistry)[i].name : i \in DOMAIN getAllTools(toolRegistry)}

\* The tool names a tools/call request is routed to a handler for.
RoutedNames == {name \in CallNameInputs \cup ListedNames : RouteToGroup(name) # 0}

\* C25: whenever the server answers requests, the names it lists are the
\* names it dispatches, and the handler it runs for a name is the handler
\* the registry stores under that name.
C25_ListedEqualsDispatched ==
  (program = "server" /\ mcpHandlers)
    => /\ ListedNames = RoutedNames
       /\ \A name \in RoutedNames :
            /\ hasTool(toolRegistry, name)
            /\ getTool(toolRegistry, name).handler
                 = GroupFindTool(ActiveGroups[RouteToGroup(name)], name).handler

\* The event stream of the session is live: its connection is being set up
\* or is set up, and its client has not gone away.
LiveStream(sessionId) ==
  conns[sessionId].pc \in {"connecting", "open"} /\ conns[sessionId].stream = "open"

\* C27: every entry of the session table belongs to a live event stream: a
\* failed connect, a close and an error leave no entry behind, and the
\* activeSessions figure of the health endpoint is the number of live
\* streams.
C27_SessionTableTracksLiveStreams ==
  program \in SsePrograms
    => /\ \A sessionId \in ObjectKeys(transports) : LiveStream(sessionId)
       /\ Health_activeSessions = Cardinality({s \in SessionIds : LiveStream(s)})

\* C28: the bootstrap's shutdown sequence runs at most once per process: a
\* signal or stray error that arrives after shutdown has begun does not start
\* a second one.
C28_ShutdownRunsOnce ==
  program = "bootstrap" => Len(shutdowns) <= 1

\* C29: in the bootstrap's shutdown the HTTP listener is fully closed before
\* service cleanup starts, service cleanup has finished before the MCP server
\* is closed, the process exits 0 only after every step has completed, and
\* no step is started after the process has exited.
HttpClosedBeforeCleanup ==
  (\E i \in DOMAIN shutdowns : shutdowns[i] \in {"cleanup", "close"})
    => lifecycle.http \in {"none", "closed"}

CleanupDoneBeforeClose ==
  (\E i \in DOMAIN shutdowns : shutdowns[i] = "close")
    => \A j \in DOMAIN shutdowns : shutdowns[j] # "cleanup"

ExitZeroAfterAllSteps ==
  lifecycle.exitCode = 0 => \A i \in DOMAIN shutdowns : shutdowns[i] = "close"

C29_ShutdownStepsOrdered ==
  program = "bootstrap"
    => HttpClosedBeforeCleanup /\ CleanupDoneBeforeClose /\ ExitZeroAfterAllSteps

\* C30: the live configuration is changed only by an updateConfig that
\* succeeds: getConfig and getSanitizedConfig leave it as it was, secrets
\* included, and so does an updateConfig that fails validation.
C30_ConfigChangedOnlyByUpdate ==
  [][program = "appConfig" /\ appConfig' # appConfig
       => configOut'.op = "updateConfig" /\ ~configOut'.threw]_vars
====
